---- MODULE Spec2Model ----
(***************************************************************************)
(* Span highlighter of the logical.ly editor (app/editor.tsx): the         *)
(* highlightSegments memo, its range allocator findAvailableRange and its  *)
(* segment builder, over the editor state they read.                       *)
(*                                                                         *)
(* Strings are sequences of one-character strings.  Indices and Ranges are *)
(* 0-based and half-open, as in the source: the JavaScript slice(a, b) of  *)
(* s is SubSeq(s, a + 1, b).                                               *)
(***************************************************************************)
EXTENDS Integers, Sequences, FiniteSets

VARIABLES content, claims, factCheckResults, logicalResults, analysisMode,
          highlightSegments,
          selectedInsight,    \* null, or the payload of the Highlight activated
          isAnalysisView,
          factCheckRun,       \* where handleRunFactCheck is suspended
          factCheckExchange,  \* the /api/fact-check exchange not yet delivered
          logicalCheckRun     \* where handleCheckLogicalDiscrepancies is suspended

VARIABLES projectData,  \* uploadedFiles of data/project-data.json
          requests      \* the /api/project-files requests, each with its position

VARIABLES documents,       \* the supporting documents the editor lists
          editingIndex,    \* the document of the Edit Description modal, or NoIndex
          editDescription, \* the text of the modal's textarea
          isSavingEdit,
          saveEdit,        \* the handleSaveEdit call awaiting the server, or Null
          renamingIndex,   \* the document of the Rename modal, or NoIndex
          renameValue,     \* the text of the modal's input
          isSavingRename,
          saveRename,      \* the handleSaveRename call awaiting the server, or Null
          alerted          \* the message of the last alert, or ""

VARIABLES isAnalysisSidebarOpen,
          isAnalysisSidebarMounted,
          animationFrames,  \* the requestAnimationFrame callbacks not yet run
          unmountTimer      \* whether the 300 ms timeout of the unmount is set

\* the analysis sidebar, its deferred opening and its deferred unmount
sidebarVars == <<isAnalysisSidebarOpen, isAnalysisSidebarMounted,
                 animationFrames, unmountTimer>>

\* the state of the project store and of the requests to it
storeVars == <<projectData, requests>>

\* the supporting documents and their two modals
documentVars ==
    <<documents, editingIndex, editDescription, isSavingEdit, saveEdit,
      renamingIndex, renameValue, isSavingRename, saveRename, alerted>>

\* the state the analysis handlers of the editor do not touch
otherVars == <<storeVars, documentVars>>

\* the state of the editor's analysis: Document, batches, runs, selection
analysisVars ==
    <<content, claims, factCheckResults, logicalResults, analysisMode,
      highlightSegments, selectedInsight, isAnalysisView, factCheckRun,
      factCheckExchange, logicalCheckRun>>

vars == <<analysisVars, otherVars, sidebarVars>>

\* the state of the two analysis operations and of the selection
runVars == <<selectedInsight, isAnalysisView, factCheckRun, factCheckExchange,
             logicalCheckRun>>

(***************************************************************************)
(* Bounds of the model.                                                    *)
(***************************************************************************)
\* the longest Document typed
MaxDocLen == 3

\* the most results the two result batches hold together
MaxAnnotations == 3

\* the /api/project-files requests of one behaviour
MaxRequests == 2

\* the requestAnimationFrame callbacks pending at once
MaxAnimationFrames == 2

(***************************************************************************)
(* Value universes.                                                        *)
(***************************************************************************)
Alphabet == {"a", "b"}

Whitespace == {" "}

\* claim texts as the extraction service returns them (untrimmed)
ClaimTexts == {<<" ", "a">>, <<"a", "b">>}

\* null (no Range, no span): a record, so that it compares with Ranges and spans
Null == [null |-> TRUE]

\* undefined (no such string): a sequence that is no string over Alphabet
Absent == <<"undefined">>

\* a request slot no request has arrived in
NoRequest == [phase |-> "none"]

\* no request to the project store, and no project-data.json yet
StoreUntouched ==
    /\ projectData = <<>>
    /\ requests = [i \in 1..MaxRequests |-> NoRequest]

\* the analysis sidebar neither mounted nor about to be
SidebarUntouched ==
    /\ isAnalysisSidebarOpen = FALSE
    /\ isAnalysisSidebarMounted = FALSE
    /\ animationFrames = 0
    /\ unmountTimer = FALSE

\* null as an index: no document (documents are counted from 1)
NoIndex == 0

\* no supporting document, and neither modal open
DocumentsUntouched ==
    /\ documents = <<>>
    /\ editingIndex = NoIndex
    /\ editDescription = <<>>
    /\ isSavingEdit = FALSE
    /\ saveEdit = Null
    /\ renamingIndex = NoIndex
    /\ renameValue = <<>>
    /\ isSavingRename = FALSE
    /\ saveRename = Null
    /\ alerted = ""

\* propositions of the logical discrepancy service: without chunk_text, with
\* a chunk_text, and with a blank chunk_text
Propositions ==
    {[text |-> <<>>, chunk_text |-> Absent],
     [text |-> <<"a">>, chunk_text |-> Absent],
     [text |-> <<"a">>, chunk_text |-> <<"b", " ">>],
     [text |-> <<"a", "b">>, chunk_text |-> <<" ">>]}

AnalysisModes == {"fact-check", "logical"}

Verdicts == {"contradicted", "uncertain"}

(***************************************************************************)
(* String primitives of the JavaScript runtime, as the highlighter uses    *)
(* them.                                                                   *)
(***************************************************************************)
Min(a, b) == IF a < b THEN a ELSE b

Max(a, b) == IF a > b THEN a ELSE b

\* s.slice(from, to) for 0 <= from, to
Slice(s, from, to) == SubSeq(s, from + 1, Min(to, Len(s)))

RECURSIVE TrimStart(_)
TrimStart(s) ==
    IF s # <<>> /\ Head(s) \in Whitespace THEN TrimStart(Tail(s)) ELSE s

RECURSIVE TrimEnd(_)
TrimEnd(s) ==
    IF s # <<>> /\ s[Len(s)] \in Whitespace
    THEN TrimEnd(SubSeq(s, 1, Len(s) - 1))
    ELSE s

\* String.prototype.trim
Trim(s) == TrimEnd(TrimStart(s))

\* whether needle occurs in hay at 0-based index idx
MatchesAt(hay, needle, idx) ==
    /\ idx >= 0
    /\ idx + Len(needle) <= Len(hay)
    /\ \A k \in 1..Len(needle) : hay[idx + k] = needle[k]

\* faulty variant of IndexOf: hay.lastIndexOf(needle), the last occurrence
IndexOf_LastOccurrence(hay, needle, from) ==
    LET hits == {idx \in Min(from, Len(hay))..Len(hay) : MatchesAt(hay, needle, idx)}
    IN  IF hits = {} THEN -1
        ELSE CHOOSE idx \in hits : \A other \in hits : idx >= other

\* hay.indexOf(needle, from): the least index >= from where needle occurs,
\* or -1
IndexOf(hay, needle, from) ==
    LET hits == {idx \in Min(from, Len(hay))..Len(hay) : MatchesAt(hay, needle, idx)}
    IN  IF hits = {} THEN -1
        ELSE CHOOSE idx \in hits : \A other \in hits : idx <= other

(***************************************************************************)
(* Range allocator: findAvailableRange and the assignedRanges array of one *)
(* highlightSegments computation.                                          *)
(***************************************************************************)
\* faulty variant of Overlaps: only "the candidate starts inside a Range"
Overlaps_StartInside(assignedRanges, start, end) ==
    \E k \in 1..Len(assignedRanges) :
        assignedRanges[k].start <= start /\ start < assignedRanges[k].end

\* faulty variant of Overlaps: the most recent Range only
Overlaps_LastOnly(assignedRanges, start, end) ==
    /\ assignedRanges # <<>>
    /\ Max(assignedRanges[Len(assignedRanges)].start, start) <
           Min(assignedRanges[Len(assignedRanges)].end, end)

\* assignedRanges.some(range => max(range.start, start) < min(range.end, end))
Overlaps(assignedRanges, start, end) ==
    \E k \in 1..Len(assignedRanges) :
        Max(assignedRanges[k].start, start) < Min(assignedRanges[k].end, end)

\* faulty variant of ScanFrom: the Range returned ends one past the match
RECURSIVE ScanFrom_EndPastMatch(_, _, _, _)
ScanFrom_EndPastMatch(text, assignedRanges, needle, searchIndex) ==
    IF ~(searchIndex < Len(text)) THEN Null
    ELSE LET idx == IndexOf(text, needle, searchIndex)
         IN  IF idx = -1 THEN Null
             ELSE IF ~Overlaps(assignedRanges, idx, idx + Len(needle))
                  THEN [start |-> idx, end |-> idx + Len(needle) + 1]
                  ELSE ScanFrom_EndPastMatch(text, assignedRanges, needle,
                                             idx + 1)

\* the while loop of findAvailableRange, from searchIndex on: the Range
\* found, or Null
RECURSIVE ScanFrom(_, _, _, _)
ScanFrom(text, assignedRanges, needle, searchIndex) ==
    IF ~(searchIndex < Len(text)) THEN Null
    ELSE LET idx == IndexOf(text, needle, searchIndex)
         IN  IF idx = -1 THEN Null
             ELSE IF ~Overlaps(assignedRanges, idx, idx + Len(needle))
                  THEN [start |-> idx, end |-> idx + Len(needle)]
                  ELSE ScanFrom(text, assignedRanges, needle, idx + 1)

\* the values searchIndex takes at the head of the while loop, in order,
\* for the iterations the loop body runs
RECURSIVE ScanIndices(_, _, _, _)
ScanIndices(text, assignedRanges, needle, searchIndex) ==
    IF ~(searchIndex < Len(text)) THEN <<>>
    ELSE LET idx == IndexOf(text, needle, searchIndex)
         IN  IF idx = -1 \/ ~Overlaps(assignedRanges, idx, idx + Len(needle))
             THEN <<searchIndex>>
             ELSE <<searchIndex>>
                      \o ScanIndices(text, assignedRanges, needle, idx + 1)

\* faulty variant of FindAvailableRange: no assignedRanges.push
FindAvailableRange_NoPush(text, assignedRanges, needle) ==
    [range |-> IF needle = <<>> THEN Null
               ELSE ScanFrom(text, assignedRanges, needle, 0),
     assignedRanges |-> assignedRanges]

\* faulty variant of FindAvailableRange: the candidate is pushed before the
\* overlap test, so a failed allocation leaves its last candidate behind
FindAvailableRange_PushesOnFailure(text, assignedRanges, needle) ==
    IF needle = <<>>
    THEN [range |-> Null, assignedRanges |-> assignedRanges]
    ELSE LET range == ScanFrom(text, assignedRanges, needle, 0)
             last  == IndexOf_LastOccurrence(text, needle, 0)
         IN  IF range # Null
             THEN [range |-> range,
                   assignedRanges |-> Append(assignedRanges, range)]
             ELSE IF last = -1
                  THEN [range |-> Null, assignedRanges |-> assignedRanges]
                  ELSE [range |-> Null,
                        assignedRanges |->
                            Append(assignedRanges,
                                   [start |-> last, end |-> last + Len(needle)])]

\* faulty variant of FindAvailableRange: no test of the needle before the
\* scan
FindAvailableRange_ScansEmptyNeedle(text, assignedRanges, needle) ==
    LET range == ScanFrom(text, assignedRanges, needle, 0)
    IN  IF range = Null
        THEN [range |-> Null, assignedRanges |-> assignedRanges]
        ELSE [range |-> range,
              assignedRanges |-> Append(assignedRanges, range)]

\* findAvailableRange(needle): the Range returned (or Null) and the
\* assignedRanges array as the call leaves it
FindAvailableRange(text, assignedRanges, needle) ==
    IF needle = <<>>
    THEN [range |-> Null, assignedRanges |-> assignedRanges]
    ELSE LET range == ScanFrom(text, assignedRanges, needle, 0)
         IN  IF range = Null
             THEN [range |-> Null, assignedRanges |-> assignedRanges]
             ELSE [range |-> range,
                   assignedRanges |-> Append(assignedRanges, range)]

(***************************************************************************)
(* Result-to-span mapping.                                                 *)
(***************************************************************************)
\* faulty variant of FactCheckSnippet: a claim is used only when its
\* offsets name a non-empty range
FactCheckSnippet_TrustsOffsets(claimList, result) ==
    LET hits == {k \in 1..Len(claimList) : claimList[k].id = result.id}
    IN  IF hits = {} THEN Absent
        ELSE LET first == CHOOSE k \in hits : \A other \in hits : k <= other
             IN  IF claimList[first].startChar < claimList[first].endChar
                 THEN Trim(claimList[first].claimText)
                 ELSE Absent

\* faulty variant of FactCheckSnippet: results joined to claims by array
\* position, the id not consulted
FactCheckSnippet_FirstClaim(claimList, result) ==
    IF claimList = <<>> THEN Absent ELSE Trim(claimList[1].claimText)

\* claims.find(c => c.id === result.id)?.claimText?.trim(), Absent when no
\* claim has the id
FactCheckSnippet(claimList, result) ==
    LET hits == {k \in 1..Len(claimList) : claimList[k].id = result.id}
    IN  IF hits = {} THEN Absent
        ELSE LET first == CHOOSE k \in hits : \A other \in hits : k <= other
             IN  Trim(claimList[first].claimText)

\* faulty variant of LogicalSnippet: the proposition's text is preferred to
\* its chunk_text
LogicalSnippet_PrefersText(result) ==
    LET chunk == IF result.proposition.chunk_text = Absent THEN <<>>
                 ELSE Trim(result.proposition.chunk_text)
        text  == IF result.proposition.text = Absent THEN <<>>
                 ELSE Trim(result.proposition.text)
    IN  IF text # <<>> THEN text ELSE chunk

\* result.proposition.chunk_text?.trim() || result.proposition.text?.trim() || ''
LogicalSnippet(result) ==
    LET chunk == IF result.proposition.chunk_text = Absent THEN <<>>
                 ELSE Trim(result.proposition.chunk_text)
        text  == IF result.proposition.text = Absent THEN <<>>
                 ELSE Trim(result.proposition.text)
    IN  IF chunk # <<>> THEN chunk ELSE text

\* the snippet a result of the given mode is placed by (Absent or <<>>: none)
Snippet(mode, claimList, result) ==
    IF mode = "fact-check" THEN FactCheckSnippet(claimList, result)
    ELSE LogicalSnippet(result)

\* the callback of results.map for one result, given the Range allocated
SpanOf(mode, snippet, range, result) ==
    IF mode = "fact-check"
    THEN [mode |-> "fact-check", start |-> range.start, end |-> range.end,
          verdict |-> result.verdict, claimText |-> snippet]
    ELSE [mode |-> "logical", start |-> range.start, end |-> range.end,
          claimText |-> snippet, logicalDetails |-> result]

\* results.map(...): element k is the span of result k, or Null; results are
\* visited in array order, each call of findAvailableRange seeing the Ranges
\* pushed by the calls before it
RECURSIVE MapFrom(_, _, _, _, _, _, _)
MapFrom(text, mode, claimList, results, k, assignedRanges, mapped) ==
    IF k > Len(results) THEN mapped
    ELSE LET snippet == Snippet(mode, claimList, results[k])
         IN  IF snippet = Absent \/ snippet = <<>>
             THEN MapFrom(text, mode, claimList, results, k + 1,
                          assignedRanges, Append(mapped, Null))
             ELSE LET found == FindAvailableRange(text, assignedRanges, snippet)
                  IN  MapFrom(text, mode, claimList, results, k + 1,
                              found.assignedRanges,
                              Append(mapped,
                                     IF found.range = Null THEN Null
                                     ELSE SpanOf(mode, snippet, found.range,
                                                 results[k])))

Reverse(seq) == [k \in 1..Len(seq) |-> seq[Len(seq) + 1 - k]]

\* faulty variant of MapResults: results visited from the last to the first
MapResults_ReverseOrder(text, mode, claimList, results) ==
    Reverse(MapFrom(text, mode, claimList, Reverse(results), 1, <<>>, <<>>))

MapResults(text, mode, claimList, results) ==
    MapFrom(text, mode, claimList, results, 1, <<>>, <<>>)

\* .filter(Boolean)
FilterSpans(mapped) == SelectSeq(mapped, LAMBDA span : span # Null)

\* spans.sort((a, b) => a.start - b.start): stable
RECURSIVE InsertSpan(_, _)
InsertSpan(sorted, span) ==
    IF sorted = <<>> THEN <<span>>
    ELSE IF sorted[Len(sorted)].start <= span.start
         THEN Append(sorted, span)
         ELSE Append(InsertSpan(SubSeq(sorted, 1, Len(sorted) - 1), span),
                     sorted[Len(sorted)])

\* faulty variant of SortSpans: the spans left in allocation order
SortSpans_Unsorted(spans) == spans

RECURSIVE SortSpans(_)
SortSpans(spans) ==
    IF spans = <<>> THEN <<>>
    ELSE InsertSpan(SortSpans(SubSeq(spans, 1, Len(spans) - 1)),
                    spans[Len(spans)])

(***************************************************************************)
(* Segment builder.                                                        *)
(***************************************************************************)
TextSegment(text) == [type |-> "text", text |-> text]

HighlightSegment(text, span) ==
    IF span.mode = "fact-check"
    THEN [type |-> "highlight", mode |-> "fact-check",
          text |-> Slice(text, span.start, span.end),
          verdict |-> span.verdict, claimText |-> span.claimText]
    ELSE [type |-> "highlight", mode |-> "logical",
          text |-> Slice(text, span.start, span.end),
          verdict |-> "contradiction", claimText |-> span.claimText,
          tag |-> "contradiction", logicalDetails |-> span.logicalDetails]

\* faulty variant of WalkSpans: the text before a span is pushed without
\* the span.start > cursor test
RECURSIVE WalkSpans_GapUnguarded(_, _, _, _, _)
WalkSpans_GapUnguarded(text, spans, k, cursor, segments) ==
    IF k > Len(spans)
    THEN IF cursor < Len(text)
         THEN Append(segments, TextSegment(Slice(text, cursor, Len(text))))
         ELSE segments
    ELSE LET span == spans[k]
             gap  == Append(segments,
                            TextSegment(Slice(text, cursor, span.start)))
         IN  WalkSpans_GapUnguarded(text, spans, k + 1, span.end,
                                    Append(gap, HighlightSegment(text, span)))

\* spans.forEach(...) from span k on, with the cursor and the segments so
\* far, then the trailing text segment
RECURSIVE WalkSpans(_, _, _, _, _)
WalkSpans(text, spans, k, cursor, segments) ==
    IF k > Len(spans)
    THEN IF cursor < Len(text)
         THEN Append(segments, TextSegment(Slice(text, cursor, Len(text))))
         ELSE segments
    ELSE LET span == spans[k]
             gap  == IF span.start > cursor
                     THEN Append(segments,
                                 TextSegment(Slice(text, cursor, span.start)))
                     ELSE segments
         IN  WalkSpans(text, spans, k + 1, span.end,
                       Append(gap, HighlightSegment(text, span)))

\* faulty variant of BuildSegments: nothing rendered when no span is placed
BuildSegments_NothingWithoutSpans(text, spans) ==
    IF spans = <<>> THEN <<>> ELSE WalkSpans(text, spans, 1, 0, <<>>)

BuildSegments(text, spans) == WalkSpans(text, spans, 1, 0, <<>>)

(***************************************************************************)
(* The highlightSegments memo.                                             *)
(***************************************************************************)
\* faulty variant of UseFactHighlights: the mode is not consulted
UseFactHighlights_IgnoresMode(mode, factResults) == Len(factResults) > 0

UseFactHighlights(mode, factResults) ==
    mode = "fact-check" /\ Len(factResults) > 0

UseLogicalHighlights(mode, logicResults) ==
    mode = "logical" /\ Len(logicResults) > 0

\* the results array the spans are mapped from, and the mode its spans carry
ActiveMode(mode, factResults) ==
    IF UseFactHighlights(mode, factResults) THEN "fact-check" ELSE "logical"

ActiveResults(mode, factResults, logicResults) ==
    IF UseFactHighlights(mode, factResults) THEN factResults ELSE logicResults

\* the sorted spans of the computation (empty when no batch is used)
Spans(text, mode, claimList, factResults, logicResults) ==
    IF ~UseFactHighlights(mode, factResults)
       /\ ~UseLogicalHighlights(mode, logicResults)
    THEN <<>>
    ELSE SortSpans(FilterSpans(
             MapResults(text, ActiveMode(mode, factResults), claimList,
                        ActiveResults(mode, factResults, logicResults))))

HighlightSegments(text, mode, claimList, factResults, logicResults) ==
    IF text = <<>> THEN <<>>
    ELSE IF ~UseFactHighlights(mode, factResults)
            /\ ~UseLogicalHighlights(mode, logicResults)
         THEN <<TextSegment(text)>>
         ELSE BuildSegments(text,
                  Spans(text, mode, claimList, factResults, logicResults))

(***************************************************************************)
(* The editor state the memo reads, and the inputs it is checked on.       *)
(***************************************************************************)
SeqsUpTo(S, n) == UNION {[1..k -> S] : k \in 0..n}

\* start_char and end_char as the extraction service answers them: missing
\* (Number(undefined ?? 0) = 0 for both), or a pair the model made up
ClaimOffsets ==
    {[startChar |-> 0, endChar |-> 0], [startChar |-> 1, endChar |-> 3]}

\* /api/fact-claims asks the model for DISTINCT claims and numbers them:
\* claim k of the list (k = 1 is index 0) has id claim-<k - 1>, here k - 1
ClaimLists ==
    {[k \in 1..Len(texts) |->
          [id |-> k - 1, claimText |-> texts[k],
           startChar |-> offsets[k].startChar, endChar |-> offsets[k].endChar]] :
     texts \in {t \in SeqsUpTo(ClaimTexts, Cardinality(ClaimTexts)) :
                   \A i, j \in 1..Len(t) : i # j => t[i] # t[j]},
     offsets \in [1..Cardinality(ClaimTexts) -> ClaimOffsets]}

\* /api/fact-check answers whatever ids and verdicts the model produced: the
\* ids of the claims sent, and one id that is no claim's
FactResultsFor(claimList) == [id : 0..Len(claimList), verdict : Verdicts]

LogicalResults == {[proposition |-> p] : p \in Propositions}

Init ==
    /\ content = <<>>
    /\ claims \in ClaimLists
    /\ factCheckResults \in SeqsUpTo(FactResultsFor(claims), MaxAnnotations)
    /\ Len(factCheckResults) > 0 => Len(claims) > 0
    /\ logicalResults \in
           SeqsUpTo(LogicalResults, MaxAnnotations - Len(factCheckResults))
    /\ analysisMode \in AnalysisModes
    /\ highlightSegments =
           HighlightSegments(content, analysisMode, claims, factCheckResults,
                             logicalResults)
    /\ selectedInsight = Null
    /\ isAnalysisView = FALSE
    /\ factCheckRun = "idle"
    /\ factCheckExchange = Null
    /\ logicalCheckRun = "idle"
    /\ StoreUntouched
    /\ DocumentsUntouched
    /\ SidebarUntouched

(***************************************************************************)
(* The effects that follow a render.  A handler's state updates are        *)
(* applied together, the component renders, the effects whose              *)
(* dependencies changed run, and their updates render again, until no      *)
(* update is left; the next event sees the settled state.                  *)
(***************************************************************************)
\* the state the effects read and write
View ==
    [analysisMode |-> analysisMode, selectedInsight |-> selectedInsight,
     isAnalysisView |-> isAnalysisView, factCheckResults |-> factCheckResults,
     logicalResults |-> logicalResults]

\* [analysisMode, hasAnyAnalysisResults, hasFactResults, hasLogicalResults]
EffectDeps(view) ==
    <<view.analysisMode,
      Len(view.factCheckResults) > 0 \/ Len(view.logicalResults) > 0,
      Len(view.factCheckResults) > 0,
      Len(view.logicalResults) > 0>>

\* faulty variant of AnalysisEffect: analysisMode is left where it is
AnalysisEffect_KeepsMode(view) ==
    IF ~(Len(view.factCheckResults) > 0 \/ Len(view.logicalResults) > 0)
    THEN [view EXCEPT !.isAnalysisView = FALSE, !.selectedInsight = Null]
    ELSE view

\* the effect that closes the analysis when no results are left, and moves
\* analysisMode off a batch without results when the other batch has some
AnalysisEffect(view) ==
    LET hasFactResults    == Len(view.factCheckResults) > 0
        hasLogicalResults == Len(view.logicalResults) > 0
    IN  IF ~(hasFactResults \/ hasLogicalResults)
        THEN [view EXCEPT !.isAnalysisView = FALSE, !.selectedInsight = Null]
        ELSE IF view.analysisMode = "fact-check" /\ ~hasFactResults
                /\ hasLogicalResults
             THEN [view EXCEPT !.analysisMode = "logical"]
             ELSE IF view.analysisMode = "logical" /\ ~hasLogicalResults
                     /\ hasFactResults
                  THEN [view EXCEPT !.analysisMode = "fact-check"]
                  ELSE view

\* faulty variant of SelectionEffect: the selection is kept
SelectionEffect_KeepsSelection(view) == view

\* the effect on [analysisMode]: setSelectedInsight(null)
SelectionEffect(view) == [view EXCEPT !.selectedInsight = Null]

\* the renders that follow the render of rendered, before was the render
\* before it
RECURSIVE RunEffects(_, _)
RunEffects(before, rendered) ==
    LET first  == IF EffectDeps(before) # EffectDeps(rendered)
                  THEN AnalysisEffect(rendered) ELSE rendered
        second == IF before.analysisMode # rendered.analysisMode
                  THEN SelectionEffect(first) ELSE first
    IN  IF second = rendered THEN rendered ELSE RunEffects(rendered, second)

\* a handler's updates, update, are applied and the effects run
Render(update) ==
    LET settled == RunEffects(View, update)
    IN  /\ analysisMode' = settled.analysisMode
        /\ selectedInsight' = settled.selectedInsight
        /\ isAnalysisView' = settled.isAnalysisView
        /\ factCheckResults' = settled.factCheckResults
        /\ logicalResults' = settled.logicalResults

\* the two sidebar flags are set, and the effect on [isAnalysisSidebarOpen,
\* isAnalysisSidebarMounted] runs when one has changed: its cleanup clears
\* the timeout, and a closed and mounted sidebar sets a new one
SetSidebar(open, mounted) ==
    /\ isAnalysisSidebarOpen' = open
    /\ isAnalysisSidebarMounted' = mounted
    /\ unmountTimer' =
           IF <<open, mounted>> #
                  <<isAnalysisSidebarOpen, isAnalysisSidebarMounted>>
           THEN ~open /\ mounted
           ELSE unmountTimer

\* the sidebar's part of the effect on [analysisMode, hasAnyAnalysisResults,
\* hasFactResults, hasLogicalResults], for a step of the analysis: when the
\* effect runs and no results are left, the sidebar is closed and unmounted
SidebarEffects ==
    /\ IF /\ EffectDeps(View)' # EffectDeps(View)
          /\ ~(Len(factCheckResults') > 0 \/ Len(logicalResults') > 0)
       THEN SetSidebar(FALSE, FALSE)
       ELSE SetSidebar(isAnalysisSidebarOpen, isAnalysisSidebarMounted)
    /\ UNCHANGED animationFrames

\* canShowAnalysisContent
CanShowAnalysisContent ==
    \/ analysisMode = "fact-check" /\ Len(factCheckResults) > 0
    \/ analysisMode = "logical" /\ Len(logicalResults) > 0

\* the values one keystroke at the end of the textarea gives it
Keystrokes(text) ==
    {Append(text, c) : c \in IF Len(text) < MaxDocLen THEN Alphabet ELSE {}}
    \cup (IF text = <<>> THEN {} ELSE {SubSeq(text, 1, Len(text) - 1)})

\* handleContentChange: setContent(e.target.value), then the memo recomputes
HandleContentChange(text) ==
    /\ ~(isAnalysisView /\ CanShowAnalysisContent)
    /\ content' = text
    /\ UNCHANGED <<claims, factCheckResults, logicalResults, analysisMode>>
    /\ UNCHANGED runVars
    /\ highlightSegments' =
           HighlightSegments(content', analysisMode', claims', factCheckResults',
                             logicalResults')
    /\ UNCHANGED otherVars
    /\ SidebarEffects

\* hasFactResults, hasLogicalResults
HasFactResults == Len(factCheckResults) > 0

HasLogicalResults == Len(logicalResults) > 0

\* the Fact Check / Logical Discrepancies toggle, rendered when both batches
\* hold results: setAnalysisMode(mode), then the memo recomputes
SetAnalysisMode(mode) ==
    /\ HasFactResults /\ HasLogicalResults
    /\ Render([View EXCEPT !.analysisMode = mode])
    /\ UNCHANGED <<content, claims, factCheckRun, factCheckExchange,
                   logicalCheckRun>>
    /\ highlightSegments' =
           HighlightSegments(content', analysisMode', claims', factCheckResults',
                             logicalResults')
    /\ UNCHANGED otherVars
    /\ SidebarEffects

\* the effect that moves analysisMode off a batch without results when the
\* other batch has some
SyncAnalysisMode ==
    /\ \/ /\ analysisMode = "fact-check"
          /\ ~HasFactResults /\ HasLogicalResults
          /\ analysisMode' = "logical"
       \/ /\ analysisMode = "logical"
          /\ ~HasLogicalResults /\ HasFactResults
          /\ analysisMode' = "fact-check"
    /\ UNCHANGED <<content, claims, factCheckResults, logicalResults>>
    /\ UNCHANGED runVars
    /\ highlightSegments' =
           HighlightSegments(content', analysisMode', claims', factCheckResults',
                             logicalResults')
    /\ UNCHANGED otherVars
    /\ SidebarEffects

Next ==
    \/ \E text \in Keystrokes(content) : HandleContentChange(text)
    \/ \E mode \in AnalysisModes : SetAnalysisMode(mode)
    \/ SyncAnalysisMode

Spec == Init /\ [][Next]_vars

(***************************************************************************)
(* The editor from its construction on: the two analysis operations, the   *)
(* /api/fact-check route between the language model and the editor, and    *)
(* the selection.                                                          *)
(***************************************************************************)
\* the longest Document typed while the analysis operations run
MaxEditLen == 2

\* the most results one logical analysis holds
MaxRunResults == 2

\* the most claims one extraction holds
MaxRunClaims == 1

\* the most results the language model writes for one /api/fact-check request
MaxParsedResults == 1

\* a file uploaded into the editor
UploadedTexts == {<<"a", "b">>}

\* the claims field of an /api/fact-claims response
ExtractedClaims ==
    {claimList \in ClaimLists :
        /\ Len(claimList) <= MaxRunClaims
        /\ \A k \in 1..Len(claimList) : claimList[k].startChar = 0}

\* the verdicts the language model answers /api/fact-check with
UpstreamVerdicts == {"supported", "contradicted", "uncertain"}

\* result?.verdict of a result the language model wrote: a category, a
\* misspelled one, or undefined when the field is missing
ParsedVerdicts == UpstreamVerdicts \cup {"Contradicted", "undefined"}

\* parsed.results of /api/fact-check for the claims sent
ParsedResults(claimList) ==
    SeqsUpTo([id : {claimList[k].id : k \in 1..Len(claimList)},
              verdict : ParsedVerdicts], MaxParsedResults)

\* the analysis of a main-document response
LogicalAnalyses ==
    SeqsUpTo({[proposition |-> [text |-> <<"a">>, chunk_text |-> Absent]]},
             MaxRunResults)

\* faulty variant of SanitizeVerdict: the verdict is passed on as written
SanitizeVerdict_PassedOn(verdict) == verdict

\* sanitizedResults of /api/fact-check
SanitizeVerdict(verdict) ==
    IF verdict = "contradicted" THEN "contradicted" ELSE "uncertain"

SanitizedResults(results) ==
    [k \in 1..Len(results) |->
        [id |-> results[k].id, verdict |-> SanitizeVerdict(results[k].verdict)]]

\* faulty variant of IsLogicalCheckLoading: one operation at a time
IsLogicalCheckLoading_EitherRun ==
    logicalCheckRun # "idle" \/ factCheckRun # "idle"

\* isFactCheckLoading, isLogicalCheckLoading
IsFactCheckLoading == factCheckRun # "idle"

IsLogicalCheckLoading == logicalCheckRun # "idle"

\* the memo after a step; a handler is its state updates, then the memo
Memo ==
    highlightSegments' =
        HighlightSegments(content', analysisMode', claims', factCheckResults',
                          logicalResults')

\* the analysis state of the editor after construction
AnalysisInit ==
    /\ content = <<>>
    /\ claims = <<>>
    /\ factCheckResults = <<>>
    /\ logicalResults = <<>>
    /\ analysisMode = "fact-check"
    /\ highlightSegments = <<>>
    /\ selectedInsight = Null
    /\ isAnalysisView = FALSE
    /\ factCheckRun = "idle"
    /\ factCheckExchange = Null
    /\ logicalCheckRun = "idle"

EditorInit ==
    /\ AnalysisInit
    /\ StoreUntouched
    /\ DocumentsUntouched
    /\ SidebarUntouched

\* keystrokes while the analysis operations are modelled
EditKeystrokes(text) == {t \in Keystrokes(text) : Len(t) <= MaxEditLen}

\* handleFileUpload: setContent(extractedText)
HandleFileUpload(text) ==
    /\ content' = text
    /\ UNCHANGED <<claims, factCheckResults, logicalResults, analysisMode>>
    /\ UNCHANGED runVars
    /\ Memo
    /\ UNCHANGED otherVars
    /\ SidebarEffects

\* handleRunFactCheck up to the first await
HandleRunFactCheckUpdates ==
    /\ ~IsFactCheckLoading
    /\ factCheckRun' = "fact-claims"
    /\ Render([View EXCEPT !.isAnalysisView = FALSE])
    /\ UNCHANGED <<content, claims, factCheckExchange, logicalCheckRun>>
    /\ UNCHANGED otherVars
    /\ SidebarEffects

HandleRunFactCheck == HandleRunFactCheckUpdates /\ Memo

\* handleRunFactCheck resumed with the claims of /api/fact-claims
FactClaimsResolvedUpdates(extractedClaims) ==
    /\ factCheckRun = "fact-claims"
    /\ IF Len(extractedClaims) = 0
       THEN /\ claims' = <<>>
            /\ Render([View EXCEPT !.factCheckResults = <<>>])
            /\ factCheckRun' = "idle"
       ELSE /\ claims' = extractedClaims
            /\ Render(View)
            /\ factCheckRun' = "fact-check"
    /\ UNCHANGED <<content, factCheckExchange, logicalCheckRun>>
    /\ UNCHANGED otherVars
    /\ SidebarEffects

FactClaimsResolved(extractedClaims) == FactClaimsResolvedUpdates(extractedClaims) /\ Memo

\* faulty variant of FactCheckRejectedUpdates: no finally block, the handler
\* ends in its catch block
FactCheckRejectedUpdates_NoFinally ==
    /\ IsFactCheckLoading
    /\ factCheckExchange = Null
    /\ Render([View EXCEPT !.factCheckResults = <<>>])
    /\ factCheckRun' = "rejected"
    /\ UNCHANGED <<content, claims, factCheckExchange, logicalCheckRun>>
    /\ UNCHANGED otherVars
    /\ SidebarEffects

\* handleRunFactCheck resumed by a failed /api/fact-claims or /api/fact-check
\* request: the catch block
FactCheckRejectedUpdates ==
    /\ IsFactCheckLoading
    /\ factCheckExchange = Null
    /\ Render([View EXCEPT !.factCheckResults = <<>>])
    /\ factCheckRun' = "idle"
    /\ UNCHANGED <<content, claims, factCheckExchange, logicalCheckRun>>
    /\ UNCHANGED otherVars
    /\ SidebarEffects

FactCheckRejected == FactCheckRejectedUpdates /\ Memo

\* POST /api/fact-check: the results the model produced, and the response
FactCheckRoute(results) ==
    /\ factCheckRun = "fact-check"
    /\ factCheckExchange = Null
    /\ factCheckExchange' =
           [parsed |-> results, results |-> SanitizedResults(results)]
    /\ UNCHANGED <<content, claims, factCheckResults, logicalResults,
                   analysisMode, highlightSegments, selectedInsight,
                   isAnalysisView, factCheckRun, logicalCheckRun>>
    /\ UNCHANGED otherVars
    /\ SidebarEffects

\* faulty variant of FactCheckResolvedUpdates: the response is appended to
\* the batch of the earlier run
FactCheckResolvedUpdates_Appends ==
    /\ factCheckRun = "fact-check"
    /\ factCheckExchange # Null
    /\ LET results == factCheckResults \o factCheckExchange.results
       IN  Render(IF Len(results) > 0
                  THEN [View EXCEPT !.factCheckResults = results,
                                    !.isAnalysisView = TRUE,
                                    !.analysisMode = "fact-check",
                                    !.selectedInsight = Null]
                  ELSE [View EXCEPT !.factCheckResults = results,
                                    !.isAnalysisView = FALSE])
    /\ factCheckRun' = "idle"
    /\ factCheckExchange' = Null
    /\ UNCHANGED <<content, claims, logicalCheckRun>>
    /\ UNCHANGED otherVars
    /\ SidebarEffects

\* handleRunFactCheck resumed with the response of /api/fact-check
FactCheckResolvedUpdates ==
    /\ factCheckRun = "fact-check"
    /\ factCheckExchange # Null
    /\ LET results == factCheckExchange.results
       IN  Render(IF Len(results) > 0
                  THEN [View EXCEPT !.factCheckResults = results,
                                    !.isAnalysisView = TRUE,
                                    !.analysisMode = "fact-check",
                                    !.selectedInsight = Null]
                  ELSE [View EXCEPT !.factCheckResults = results,
                                    !.isAnalysisView = FALSE])
    /\ factCheckRun' = "idle"
    /\ factCheckExchange' = Null
    /\ UNCHANGED <<content, claims, logicalCheckRun>>
    /\ UNCHANGED otherVars
    /\ SidebarEffects

FactCheckResolved == FactCheckResolvedUpdates /\ Memo

\* faulty variant of HandleCheckLogicalDiscrepancies: it leaves the analysis
\* view as handleRunFactCheck does
HandleCheckLogicalDiscrepancies_LeavesView ==
    /\ ~IsLogicalCheckLoading
    /\ Trim(content) # <<>>
    /\ logicalCheckRun' = "main-document"
    /\ Render([View EXCEPT !.isAnalysisView = FALSE])
    /\ UNCHANGED <<content, claims, highlightSegments, factCheckRun,
                   factCheckExchange>>
    /\ UNCHANGED otherVars
    /\ SidebarEffects

\* handleCheckLogicalDiscrepancies up to its await
HandleCheckLogicalDiscrepancies ==
    /\ ~IsLogicalCheckLoading
    /\ Trim(content) # <<>>
    /\ logicalCheckRun' = "main-document"
    /\ UNCHANGED <<content, claims, factCheckResults, logicalResults,
                   analysisMode, highlightSegments, selectedInsight,
                   isAnalysisView, factCheckRun, factCheckExchange>>
    /\ UNCHANGED otherVars
    /\ SidebarEffects

\* handleCheckLogicalDiscrepancies resumed with the analysis
LogicalCheckResolvedUpdates(results) ==
    /\ logicalCheckRun = "main-document"
    /\ Render(IF Len(results) > 0
              THEN [View EXCEPT !.logicalResults = results,
                                !.selectedInsight = Null,
                                !.analysisMode = "logical",
                                !.isAnalysisView = TRUE]
              ELSE [View EXCEPT !.logicalResults = results,
                                !.selectedInsight = Null,
                                !.isAnalysisView = FALSE])
    /\ logicalCheckRun' = "idle"
    /\ UNCHANGED <<content, claims, factCheckRun, factCheckExchange>>
    /\ UNCHANGED otherVars
    /\ SidebarEffects

LogicalCheckResolved(results) == LogicalCheckResolvedUpdates(results) /\ Memo

\* handleCheckLogicalDiscrepancies resumed by a failed request: the catch
\* block
LogicalCheckRejectedUpdates ==
    /\ logicalCheckRun = "main-document"
    /\ Render([View EXCEPT !.logicalResults = <<>>])
    /\ logicalCheckRun' = "idle"
    /\ UNCHANGED <<content, claims, factCheckRun, factCheckExchange>>
    /\ UNCHANGED otherVars
    /\ SidebarEffects

LogicalCheckRejected == LogicalCheckRejectedUpdates /\ Memo

\* the payload handleHighlightSelect stores for a Highlight segment
InsightOf(segment) ==
    IF segment.mode = "logical"
    THEN [mode |-> "logical",
          proposition |-> segment.logicalDetails.proposition]
    ELSE [mode |-> "fact-check", text |-> segment.text,
          verdict |-> segment.verdict]

\* a click on Highlight segment j of the analysis view
HandleHighlightSelect(j) ==
    /\ isAnalysisView /\ CanShowAnalysisContent
    /\ highlightSegments[j].type = "highlight"
    /\ Render([View EXCEPT !.selectedInsight = InsightOf(highlightSegments[j])])
    /\ UNCHANGED <<content, claims, factCheckRun, factCheckExchange,
                   logicalCheckRun>>
    /\ Memo
    /\ UNCHANGED otherVars
    /\ SidebarEffects

\* the close button and the backdrop of the insight sidebar
DismissInsight ==
    /\ selectedInsight # Null
    /\ Render([View EXCEPT !.selectedInsight = Null])
    /\ UNCHANGED <<content, claims, factCheckRun, factCheckExchange,
                   logicalCheckRun>>
    /\ Memo
    /\ UNCHANGED otherVars
    /\ SidebarEffects

\* Back to editor
CloseAnalysisView ==
    /\ isAnalysisView /\ CanShowAnalysisContent
    /\ Render([View EXCEPT !.isAnalysisView = FALSE])
    /\ UNCHANGED <<content, claims, factCheckRun, factCheckExchange,
                   logicalCheckRun>>
    /\ Memo
    /\ UNCHANGED otherVars
    /\ SidebarEffects

EditorNext ==
    \/ \E text \in EditKeystrokes(content) : HandleContentChange(text)
    \/ \E text \in UploadedTexts : HandleFileUpload(text)
    \/ HandleRunFactCheck
    \/ \E extractedClaims \in ExtractedClaims : FactClaimsResolved(extractedClaims)
    \/ FactCheckRejected
    \/ \E results \in ParsedResults(claims) : FactCheckRoute(results)
    \/ FactCheckResolved
    \/ HandleCheckLogicalDiscrepancies
    \/ \E results \in LogicalAnalyses : LogicalCheckResolved(results)
    \/ LogicalCheckRejected
    \/ \E j \in 1..Len(highlightSegments) : HandleHighlightSelect(j)
    \/ DismissInsight
    \/ \E mode \in AnalysisModes : SetAnalysisMode(mode)
    \/ CloseAnalysisView

EditorSpec == EditorInit /\ [][EditorNext]_vars

\* the state updates of a step that resumes handleRunFactCheck: one of its
\* awaited requests has settled, or the route has answered
FactCheckRunContinues ==
    \/ \E extractedClaims \in ExtractedClaims :
           FactClaimsResolvedUpdates(extractedClaims)
    \/ FactCheckRejectedUpdates
    \/ \E results \in ParsedResults(claims) : FactCheckRoute(results)
    \/ FactCheckResolvedUpdates

\* the state updates of a step that resumes
\* handleCheckLogicalDiscrepancies: postMainDocument has settled
LogicalCheckRunContinues ==
    \/ \E results \in LogicalAnalyses : LogicalCheckResolvedUpdates(results)
    \/ LogicalCheckRejectedUpdates

\* the editor when every network call returns: an awaited promise settles
\* and its handler resumes (each such step moves the handler's position)
EditorFairSpec ==
    /\ EditorSpec
    /\ WF_<<factCheckRun, factCheckExchange>>(FactCheckRunContinues)
    /\ WF_logicalCheckRun(LogicalCheckRunContinues)

(***************************************************************************)
(* The project store: the PATCH and POST handlers of                       *)
(* app/api/project-files/route.ts over data/project-data.json.  A request  *)
(* body is a JSON value; of the stored data only uploadedFiles is kept,    *)
(* the other fields are read and written back unchanged.                   *)
(***************************************************************************)
\* JSON values of a request body, by typeof
Str(s) == [type |-> "string", value |-> s]

Num(n) == [type |-> "number", value |-> n]

Undefined == [type |-> "undefined"]

Obj(fields) == [type |-> "object", value |-> fields]

\* an array: typeof gives 'object'
Arr(items) == [type |-> "object", value |-> items]

\* a file as /api/save-project-data stores it: no content
StoredFile(order) ==
    [fileName |-> <<"f">>, fileType |-> "text/plain", description |-> <<>>,
     content |-> Absent, order |-> order]

\* uploadedFiles of the project-data.json a behaviour starts from, as
\* handleSubmit numbers them: order index + 1
InitialFiles ==
    {<<>>,
     <<StoredFile(1)>>,
     <<StoredFile(1), StoredFile(2)>>}

\* the bodies of the PATCH requests
PatchBodies ==
    [order : {Num(1), Num(3), Str(<<"1">>)},
     updates : {Undefined, Str(<<"g">>)}
               \cup {Obj(fields) :
                       fields \in [fileName : {Str(<<"g">>), Undefined},
                                   description : {Str(<<"e">>), Arr(<<"e", "e">>)},
                                   content : {Str(<<"c">>), Undefined}]}]

\* the bodies of the POST requests
PostBodies ==
    [fileName : {Str(<<" ", "g">>), Str(<<" ">>), Undefined},
     fileType : {Undefined},
     description : {Str(<<"e">>), Undefined},
     content : {Str(<<"c">>)},
     order : {Num(1), Num(3), Undefined}]

\* a request that has returned: its response
Responded(request, status, file) ==
    [method |-> request.method, body |-> request.body, phase |-> "done",
     status |-> status, file |-> file]

\* PATCH up to `await mkdir`: the 400 of an invalid payload
ReceivePatch(i, body) ==
    /\ requests[i].phase = "none"
    /\ LET request == [method |-> "PATCH", body |-> body]
       IN  requests' =
               [requests EXCEPT ![i] =
                   IF \/ body.order.type # "number"
                      \/ body.updates.type # "object"
                   THEN Responded(request, 400, Null)
                   ELSE [method |-> "PATCH", body |-> body,
                         phase |-> "reading"]]
    /\ UNCHANGED <<projectData, analysisVars, documentVars, sidebarVars>>

\* POST up to `await mkdir`: the 400 of a missing file name
ReceivePost(i, body) ==
    /\ requests[i].phase = "none"
    /\ LET request == [method |-> "POST", body |-> body]
       IN  requests' =
               [requests EXCEPT ![i] =
                   IF \/ body.fileName.type # "string"
                      \/ Len(Trim(body.fileName.value)) = 0
                   THEN Responded(request, 400, Null)
                   ELSE [method |-> "POST", body |-> body,
                         phase |-> "reading"]]
    /\ UNCHANGED <<projectData, analysisVars, documentVars, sidebarVars>>

\* data.uploadedFiles.findIndex(file => file?.order === order), 0 for -1
FileIndex(files, order) ==
    LET hits == {k \in 1..Len(files) : files[k].order = order}
    IN  IF hits = {} THEN 0
        ELSE CHOOSE k \in hits : \A other \in hits : k <= other

\* sanitizedUpdates: the string fields of updates
SanitizedUpdates(updates) ==
    {name \in {"fileName", "description", "content"} :
        updates[name].type = "string"}

\* faulty variant of FileUpdated: { ...file, ...updates }, every field of
\* updates copied as sent
FileUpdated_Unsanitized(file, updates) ==
    [name \in DOMAIN file |->
        IF name \in DOMAIN updates /\ updates[name].type # "undefined"
        THEN updates[name].value ELSE file[name]]

\* { ...file, ...sanitizedUpdates }
FileUpdated(file, updates) ==
    [name \in DOMAIN file |->
        IF name \in SanitizedUpdates(updates)
        THEN updates[name].value ELSE file[name]]

\* reduce((max, file) => Math.max(max, file.order), 0)
RECURSIVE CurrentMaxOrder(_)
CurrentMaxOrder(files) ==
    IF files = <<>> THEN 0
    ELSE Max(CurrentMaxOrder(SubSeq(files, 1, Len(files) - 1)),
             files[Len(files)].order)

ResolvedOrder(files, body) ==
    IF body.order.type = "number" THEN body.order.value
    ELSE CurrentMaxOrder(files) + 1

NewFile(files, body) ==
    [fileName |-> Trim(body.fileName.value),
     fileType |-> IF body.fileType.type = "string"
                     /\ Len(body.fileType.value) > 0
                  THEN body.fileType.value ELSE "application/octet-stream",
     description |-> IF body.description.type = "string"
                     THEN body.description.value ELSE <<>>,
     content |-> IF body.content.type = "string"
                 THEN body.content.value ELSE <<>>,
     order |-> ResolvedOrder(files, body)]

\* uploadedFiles.sort((a, b) => a.order - b.order): stable
RECURSIVE InsertFile(_, _)
InsertFile(sorted, file) ==
    IF sorted = <<>> THEN <<file>>
    ELSE IF sorted[Len(sorted)].order <= file.order
         THEN Append(sorted, file)
         ELSE Append(InsertFile(SubSeq(sorted, 1, Len(sorted) - 1), file),
                     sorted[Len(sorted)])

RECURSIVE SortFiles(_)
SortFiles(files) ==
    IF files = <<>> THEN <<>>
    ELSE InsertFile(SortFiles(SubSeq(files, 1, Len(files) - 1)),
                    files[Len(files)])

\* faulty variant of FilesPosted: no filter, the file is pushed beside any
\* entry with its order
FilesPosted_NoFilter(files, body) ==
    SortFiles(Append(files, NewFile(files, body)))

\* filter(file => file.order !== resolvedOrder), push(newFile), sort
FilesPosted(files, body) ==
    LET resolvedOrder == ResolvedOrder(files, body)
        kept == SelectSeq(files, LAMBDA file : file.order # resolvedOrder)
    IN  SortFiles(Append(kept, NewFile(files, body)))

\* the handler of request, resumed with the data readProjectData returned,
\* up to its `await writeFile` or its error response
Resumed(request, files) ==
    IF request.method = "PATCH"
    THEN LET fileIndex == FileIndex(files, request.body.order.value)
             updates   == request.body.updates.value
         IN  IF fileIndex = 0 THEN Responded(request, 404, Null)
             ELSE IF SanitizedUpdates(updates) = {}
                  THEN Responded(request, 400, Null)
                  ELSE [method |-> "PATCH", body |-> request.body,
                        phase |-> "writing",
                        data |-> [files EXCEPT ![fileIndex] =
                                     FileUpdated(files[fileIndex], updates)],
                        file |-> FileUpdated(files[fileIndex], updates)]
    ELSE [method |-> "POST", body |-> request.body, phase |-> "writing",
          data |-> FilesPosted(files, request.body),
          file |-> NewFile(files, request.body)]

\* readProjectData resolves for request i, and its handler runs on
ReadProjectData(i) ==
    /\ requests[i].phase = "reading"
    /\ requests' = [requests EXCEPT ![i] = Resumed(requests[i], projectData)]
    /\ UNCHANGED <<projectData, analysisVars, documentVars, sidebarVars>>

\* writeFile of request i takes place, and its handler answers success
WriteFile(i) ==
    /\ requests[i].phase = "writing"
    /\ projectData' = requests[i].data
    /\ requests' =
           [requests EXCEPT ![i] = Responded(requests[i], 200, requests[i].file)]
    /\ UNCHANGED <<analysisVars, documentVars, sidebarVars>>

\* no request is between its arrival and its response
NoRequestInFlight ==
    \A i \in 1..MaxRequests : requests[i].phase \in {"none", "done"}

ProjectFilesInit ==
    /\ AnalysisInit
    /\ projectData \in InitialFiles
    /\ requests = [i \in 1..MaxRequests |-> NoRequest]
    /\ DocumentsUntouched
    /\ SidebarUntouched

\* the store serving requests as they come, overlapping
ProjectFilesNext ==
    \/ \E i \in 1..MaxRequests, body \in PatchBodies : ReceivePatch(i, body)
    \/ \E i \in 1..MaxRequests, body \in PostBodies : ReceivePost(i, body)
    \/ \E i \in 1..MaxRequests : ReadProjectData(i)
    \/ \E i \in 1..MaxRequests : WriteFile(i)

ProjectFilesSpec == ProjectFilesInit /\ [][ProjectFilesNext]_vars

\* the store serving one request at a time: a request arrives when no other
\* is in flight
ProjectFilesSerialNext ==
    \/ \E i \in 1..MaxRequests, body \in PatchBodies :
           NoRequestInFlight /\ ReceivePatch(i, body)
    \/ \E i \in 1..MaxRequests, body \in PostBodies :
           NoRequestInFlight /\ ReceivePost(i, body)
    \/ \E i \in 1..MaxRequests : ReadProjectData(i)
    \/ \E i \in 1..MaxRequests : WriteFile(i)

ProjectFilesSerialSpec == ProjectFilesInit /\ [][ProjectFilesSerialNext]_vars

(***************************************************************************)
(* The supporting documents of the editor: the Edit Description and Rename *)
(* modals, whose saves update the list before the server answers.  Each    *)
(* modal is a full-screen layer over the document list, so the list's menu *)
(* is operated only while neither modal is open.                           *)
(***************************************************************************)
\* the documents the editor starts with, from the stored uploadedFiles
DocumentsOf(files) ==
    [k \in 1..Len(files) |->
        [document_title |-> files[k].fileName,
         description |-> IF files[k].description = <<>>
                         THEN <<"No description provided.">>
                         ELSE files[k].description,
         order |-> files[k].order]]

\* what the user types into the textarea of the Edit Description modal
EditDescriptions == {<<>>, <<"e">>}

\* what the user types into the input of the Rename modal
RenameValues == {<<" ">>, <<" ", "g">>}

\* neither modal covers the document list
NoModalOpen == editingIndex = NoIndex /\ renamingIndex = NoIndex

\* the server's part of updateProjectFile when it answers success: the PATCH
\* handler run from its read to its write
ProjectFilePatched(order, updates) ==
    LET request == [method |-> "PATCH",
                    body |-> [order |-> Num(order), updates |-> Obj(updates)]]
    IN  /\ Resumed(request, projectData).phase = "writing"
        /\ projectData' = Resumed(request, projectData).data

\* the updates of a description
DescriptionUpdates(description) ==
    [fileName |-> Undefined, description |-> Str(description),
     content |-> Undefined]

\* the updates of a file name
FileNameUpdates(newName) ==
    [fileName |-> Str(newName), description |-> Undefined,
     content |-> Undefined]

HandleEdit(index) ==
    /\ NoModalOpen
    /\ index \in 1..Len(documents)
    /\ editingIndex' = index
    /\ editDescription' = documents[index].description
    /\ UNCHANGED <<documents, isSavingEdit, saveEdit, renamingIndex,
                   renameValue, isSavingRename, saveRename>>
    /\ UNCHANGED alerted
    /\ UNCHANGED <<analysisVars, storeVars, sidebarVars>>

\* onChange of the textarea
SetEditDescription(value) ==
    /\ editingIndex # NoIndex
    /\ editDescription' = value
    /\ UNCHANGED <<documents, editingIndex, isSavingEdit, saveEdit,
                   renamingIndex, renameValue, isSavingRename, saveRename>>
    /\ UNCHANGED alerted
    /\ UNCHANGED <<analysisVars, storeVars, sidebarVars>>

\* handleSaveEdit up to `await updateProjectFile(...)`
HandleSaveEdit ==
    /\ editingIndex # NoIndex
    /\ ~isSavingEdit
    /\ editingIndex \in 1..Len(documents)
    /\ saveEdit' = [previousDocuments |-> documents,
                    order |-> documents[editingIndex].order,
                    description |-> editDescription]
    /\ documents' = [documents EXCEPT
                        ![editingIndex].description = editDescription]
    /\ isSavingEdit' = TRUE
    /\ UNCHANGED <<editingIndex, editDescription, renamingIndex, renameValue,
                   isSavingRename, saveRename>>
    /\ UNCHANGED alerted
    /\ UNCHANGED <<analysisVars, storeVars, sidebarVars>>

\* updateProjectFile resolves: the try block and finally
SaveEditResolved ==
    /\ saveEdit # Null
    /\ ProjectFilePatched(saveEdit.order,
                          DescriptionUpdates(saveEdit.description))
    /\ editingIndex' = NoIndex
    /\ editDescription' = <<>>
    /\ isSavingEdit' = FALSE
    /\ saveEdit' = Null
    /\ UNCHANGED <<documents, renamingIndex, renameValue, isSavingRename,
                   saveRename>>
    /\ UNCHANGED alerted
    /\ UNCHANGED <<analysisVars, requests, sidebarVars>>

\* faulty variant of SaveEditRejected: the catch block without
\* setDocuments(previousDocuments)
SaveEditRejected_NoRollback ==
    /\ saveEdit # Null
    /\ alerted' = "Failed to update description. Please try again."
    /\ isSavingEdit' = FALSE
    /\ saveEdit' = Null
    /\ UNCHANGED <<documents, editingIndex, editDescription, renamingIndex,
                   renameValue, isSavingRename, saveRename>>
    /\ UNCHANGED <<analysisVars, storeVars, sidebarVars>>

\* updateProjectFile throws (the fetch fails or the response is not ok):
\* catch and finally
SaveEditRejected ==
    /\ saveEdit # Null
    /\ alerted' = "Failed to update description. Please try again."
    /\ documents' = saveEdit.previousDocuments
    /\ isSavingEdit' = FALSE
    /\ saveEdit' = Null
    /\ UNCHANGED <<editingIndex, editDescription, renamingIndex, renameValue,
                   isSavingRename, saveRename>>
    /\ UNCHANGED <<analysisVars, storeVars, sidebarVars>>

HandleCancelEdit ==
    /\ editingIndex # NoIndex
    /\ ~isSavingEdit
    /\ editingIndex' = NoIndex
    /\ editDescription' = <<>>
    /\ UNCHANGED <<documents, isSavingEdit, saveEdit, renamingIndex,
                   renameValue, isSavingRename, saveRename>>
    /\ UNCHANGED alerted
    /\ UNCHANGED <<analysisVars, storeVars, sidebarVars>>

HandleRename(index) ==
    /\ NoModalOpen
    /\ index \in 1..Len(documents)
    /\ renamingIndex' = index
    /\ renameValue' = documents[index].document_title
    /\ UNCHANGED <<documents, editingIndex, editDescription, isSavingEdit,
                   saveEdit, isSavingRename, saveRename>>
    /\ UNCHANGED alerted
    /\ UNCHANGED <<analysisVars, storeVars, sidebarVars>>

\* onChange of the input
SetRenameValue(value) ==
    /\ renamingIndex # NoIndex
    /\ renameValue' = value
    /\ UNCHANGED <<documents, editingIndex, editDescription, isSavingEdit,
                   saveEdit, renamingIndex, isSavingRename, saveRename>>
    /\ UNCHANGED alerted
    /\ UNCHANGED <<analysisVars, storeVars, sidebarVars>>

\* handleSaveRename up to `await updateProjectFile(...)`; an empty name is
\* answered with an alert and nothing else
HandleSaveRename ==
    /\ renamingIndex # NoIndex
    /\ ~isSavingRename
    /\ renamingIndex \in 1..Len(documents)
    /\ LET newName == Trim(renameValue)
       IN  IF newName = <<>>
           THEN /\ alerted' = "Document name cannot be empty."
                /\ UNCHANGED <<documents, isSavingRename, saveRename>>
           ELSE /\ saveRename' = [previousDocuments |-> documents,
                                  order |-> documents[renamingIndex].order,
                                  newName |-> newName]
                /\ documents' = [documents EXCEPT
                                    ![renamingIndex].document_title = newName]
                /\ isSavingRename' = TRUE
                /\ UNCHANGED alerted
    /\ UNCHANGED <<editingIndex, editDescription, isSavingEdit, saveEdit,
                   renamingIndex, renameValue>>
    /\ UNCHANGED <<analysisVars, storeVars, sidebarVars>>

SaveRenameResolved ==
    /\ saveRename # Null
    /\ ProjectFilePatched(saveRename.order, FileNameUpdates(saveRename.newName))
    /\ renamingIndex' = NoIndex
    /\ renameValue' = <<>>
    /\ isSavingRename' = FALSE
    /\ saveRename' = Null
    /\ UNCHANGED <<documents, editingIndex, editDescription, isSavingEdit,
                   saveEdit>>
    /\ UNCHANGED alerted
    /\ UNCHANGED <<analysisVars, requests, sidebarVars>>

SaveRenameRejected ==
    /\ saveRename # Null
    /\ alerted' = "Failed to rename document. Please try again."
    /\ documents' = saveRename.previousDocuments
    /\ isSavingRename' = FALSE
    /\ saveRename' = Null
    /\ UNCHANGED <<editingIndex, editDescription, isSavingEdit, saveEdit,
                   renamingIndex, renameValue>>
    /\ UNCHANGED <<analysisVars, storeVars, sidebarVars>>

HandleCancelRename ==
    /\ renamingIndex # NoIndex
    /\ ~isSavingRename
    /\ renamingIndex' = NoIndex
    /\ renameValue' = <<>>
    /\ UNCHANGED <<documents, editingIndex, editDescription, isSavingEdit,
                   saveEdit, isSavingRename, saveRename>>
    /\ UNCHANGED alerted
    /\ UNCHANGED <<analysisVars, storeVars, sidebarVars>>

\* documents.filter((_, i) => i !== index): the list only, not the store
HandleDelete(index) ==
    /\ NoModalOpen
    /\ index \in 1..Len(documents)
    /\ documents' = [k \in 1..(Len(documents) - 1) |->
                        IF k < index THEN documents[k] ELSE documents[k + 1]]
    /\ UNCHANGED <<editingIndex, editDescription, isSavingEdit, saveEdit,
                   renamingIndex, renameValue, isSavingRename, saveRename>>
    /\ UNCHANGED alerted
    /\ UNCHANGED <<analysisVars, storeVars, sidebarVars>>

DocumentsInit ==
    /\ AnalysisInit
    /\ projectData \in InitialFiles
    /\ requests = [i \in 1..MaxRequests |-> NoRequest]
    /\ documents = DocumentsOf(projectData)
    /\ editingIndex = NoIndex
    /\ editDescription = <<>>
    /\ isSavingEdit = FALSE
    /\ saveEdit = Null
    /\ renamingIndex = NoIndex
    /\ renameValue = <<>>
    /\ isSavingRename = FALSE
    /\ saveRename = Null
    /\ alerted = ""
    /\ SidebarUntouched

DocumentsNext ==
    \/ \E index \in 1..Len(documents) : HandleEdit(index)
    \/ \E value \in EditDescriptions : SetEditDescription(value)
    \/ HandleSaveEdit
    \/ SaveEditResolved
    \/ SaveEditRejected
    \/ HandleCancelEdit
    \/ \E index \in 1..Len(documents) : HandleRename(index)
    \/ \E value \in RenameValues : SetRenameValue(value)
    \/ HandleSaveRename
    \/ SaveRenameResolved
    \/ SaveRenameRejected
    \/ HandleCancelRename
    \/ \E index \in 1..Len(documents) : HandleDelete(index)

DocumentsSpec == DocumentsInit /\ [][DocumentsNext]_vars

(***************************************************************************)
(* The analysis sidebar: mounted by the "Show analysis" button, opened by  *)
(* an animation-frame callback, closed by its backdrop and close button,   *)
(* and unmounted by a 300 ms timeout after closing.                        *)
(***************************************************************************)
\* the "Show analysis" button, rendered while there are results; an open
\* sidebar's backdrop lies over it
HandleOpenAnalysisSidebar ==
    /\ HasFactResults \/ HasLogicalResults
    /\ ~(isAnalysisSidebarMounted /\ isAnalysisSidebarOpen)
    /\ animationFrames < MaxAnimationFrames
    /\ SetSidebar(isAnalysisSidebarOpen, TRUE)
    /\ animationFrames' = animationFrames + 1
    /\ UNCHANGED <<analysisVars, otherVars>>

\* the callback given to requestAnimationFrame: setIsAnalysisSidebarOpen(true)
AnimationFrame ==
    /\ animationFrames > 0
    /\ SetSidebar(TRUE, isAnalysisSidebarMounted)
    /\ animationFrames' = animationFrames - 1
    /\ UNCHANGED <<analysisVars, otherVars>>

\* the backdrop and the close button of the rendered sidebar
HandleCloseAnalysisSidebar ==
    /\ isAnalysisSidebarMounted
    /\ HasFactResults \/ HasLogicalResults
    /\ SetSidebar(FALSE, isAnalysisSidebarMounted)
    /\ UNCHANGED animationFrames
    /\ UNCHANGED <<analysisVars, otherVars>>

\* the callback given to setTimeout: setIsAnalysisSidebarMounted(false)
UnmountTimeout ==
    /\ unmountTimer
    /\ SetSidebar(isAnalysisSidebarOpen, FALSE)
    /\ UNCHANGED animationFrames
    /\ UNCHANGED <<analysisVars, otherVars>>

SidebarNext ==
    \/ EditorNext
    \/ HandleOpenAnalysisSidebar
    \/ AnimationFrame
    \/ HandleCloseAnalysisSidebar
    \/ UnmountTimeout

SidebarSpec == EditorInit /\ [][SidebarNext]_vars

(***************************************************************************)
(* Vocabulary of the properties: the computation of the current state.     *)
(***************************************************************************)
\* whether the memo maps a result batch at all
BatchUsed ==
    \/ UseFactHighlights(analysisMode, factCheckResults)
    \/ UseLogicalHighlights(analysisMode, logicalResults)

\* the Annotations of the active batch, in processing order
Batch ==
    IF BatchUsed
    THEN ActiveResults(analysisMode, factCheckResults, logicalResults)
    ELSE <<>>

BatchMode == ActiveMode(analysisMode, factCheckResults)

\* the snippetText of Annotation k
SnippetAt(k) == Snippet(BatchMode, claims, Batch[k])

HasSnippet(k) == SnippetAt(k) # Absent /\ SnippetAt(k) # <<>>

\* element k: the span placed for Annotation k, or Null
Placements(text, mode, claimList, results) ==
    MapResults(text, mode, claimList, results)

Placed == Placements(content, BatchMode, claims, Batch)

IsPlaced(k) == Placed[k] # Null

\* the Ranges allocated to the Annotations before Annotation k
RangesBefore(k) == {Placed[i] : i \in {i \in 1..(k - 1) : Placed[i] # Null}}

\* interval intersection of two half-open Ranges
Intersect(s1, e1, s2, e2) == Max(s1, s2) < Min(e1, e2)

\* the indices at which a non-empty needle occurs in the Document
Occurrences(needle) ==
    {idx \in 0..Len(content) : needle # <<>> /\ MatchesAt(content, needle, idx)}

\* the occurrences of needle that intersect none of the given Ranges
FreeOccurrences(needle, ranges) ==
    {idx \in Occurrences(needle) :
        \A r \in ranges : ~Intersect(r.start, r.end, idx, idx + Len(needle))}

Least(S) == CHOOSE x \in S : \A y \in S : x <= y

IsHighlight(segment) == segment.type = "highlight"

Highlights == SelectSeq(highlightSegments, IsHighlight)

\* the Document index at which segment j of the rendered sequence starts
RECURSIVE SegmentStart(_)
SegmentStart(j) ==
    IF j = 1 THEN 0
    ELSE SegmentStart(j - 1) + Len(highlightSegments[j - 1].text)

SegmentEnd(j) == SegmentStart(j) + Len(highlightSegments[j].text)

RECURSIVE Concatenation(_)
Concatenation(segments) ==
    IF segments = <<>> THEN <<>>
    ELSE Head(segments).text \o Concatenation(Tail(segments))

\* the indices of the Highlight segments among the rendered segments
HighlightIndices == {j \in 1..Len(highlightSegments) : IsHighlight(highlightSegments[j])}

\* segment j is the Highlight of the span
ShowsSpan(j, span) ==
    /\ IsHighlight(highlightSegments[j])
    /\ SegmentStart(j) = span.start
    /\ SegmentEnd(j) = span.end
    /\ highlightSegments[j].claimText = span.claimText

(***************************************************************************)
(* C1: the rendered Segment sequence covers the Document exactly once, left *)
(* to right: concatenating the segment texts yields the Document, the      *)
(* segments are laid end to end from index 0 to len(D), and the Highlight  *)
(* segments sit, in order, exactly on the Ranges placed.                   *)
(***************************************************************************)
C1_SegmentsCoverDocument ==
    LET spans == Spans(content, analysisMode, claims, factCheckResults,
                       logicalResults)
    IN  /\ Concatenation(highlightSegments) = content
        /\ highlightSegments # <<>> =>
               SegmentEnd(Len(highlightSegments)) = Len(content)
        /\ Len(Highlights) = Len(spans)
        /\ \A j \in HighlightIndices :
               LET m == Cardinality({i \in HighlightIndices : i <= j})
               IN  /\ SegmentStart(j) = spans[m].start
                   /\ SegmentEnd(j) = spans[m].end
                   /\ highlightSegments[j].text =
                          Slice(content, spans[m].start, spans[m].end)

\* two Highlights allocated right to left, beside a PlainText segment
C1_Witness ==
    /\ Len(Highlights) >= 2
    /\ Len(highlightSegments) > Len(Highlights)
    /\ \E i, j \in 1..Len(Placed) :
           /\ i < j /\ IsPlaced(i) /\ IsPlaced(j)
           /\ Placed[j].start < Placed[i].start

(***************************************************************************)
(* C2: no two Ranges allocated within one computation intersect, so no two *)
(* Highlight segments overlap.                                             *)
(***************************************************************************)
C2_RangesDisjoint ==
    /\ \A i, j \in 1..Len(Placed) :
           (i # j /\ IsPlaced(i) /\ IsPlaced(j)) =>
               Max(Placed[i].start, Placed[j].start) >=
                   Min(Placed[i].end, Placed[j].end)
    /\ \A i, j \in HighlightIndices :
           i < j => SegmentEnd(i) <= SegmentStart(j)
    /\ \A j \in HighlightIndices :
           \E k \in 1..Len(Placed) : IsPlaced(k) /\ ShowsSpan(j, Placed[k])

\* an Annotation placed on a later occurrence because an earlier Range
\* covers part of its first occurrence
C2_Witness ==
    \E i, j \in 1..Len(Placed) :
        /\ i < j /\ IsPlaced(i) /\ IsPlaced(j)
        /\ Placed[j].start # Least(Occurrences(SnippetAt(j)))
        /\ Intersect(Placed[i].start, Placed[i].end,
                     Least(Occurrences(SnippetAt(j))),
                     Least(Occurrences(SnippetAt(j))) + Len(SnippetAt(j)))
        /\ Placed[i].start # Least(Occurrences(SnippetAt(j)))

(***************************************************************************)
(* C3: when no Annotation of the active batch is placed (the batch is      *)
(* empty, or every Annotation fails allocation) the Segment sequence is    *)
(* one PlainText segment holding the whole Document, or the empty list     *)
(* when the Document is empty.                                             *)
(***************************************************************************)
C3_NothingPlacedIsPlainText ==
    (\A k \in 1..Len(Placed) : ~IsPlaced(k)) =>
        highlightSegments =
            IF content = <<>> THEN <<>>
            ELSE <<[type |-> "text", text |-> content]>>

\* a non-empty batch all of whose Annotations fail on a non-empty Document,
\* one of them for want of an occurrence
C3_Witness ==
    /\ content # <<>>
    /\ Len(Batch) >= 2
    /\ \A k \in 1..Len(Placed) : ~IsPlaced(k)
    /\ \E k \in 1..Len(Batch) : HasSnippet(k) /\ Occurrences(SnippetAt(k)) = {}
    /\ highlightSegments = <<[type |-> "text", text |-> content]>>

\* the Highlight segments showing Annotation k: on its Range, with its verdict
\* (fact-check) or its proposition (logical)
HighlightsOf(k) ==
    {j \in HighlightIndices :
        /\ ShowsSpan(j, Placed[k])
        /\ highlightSegments[j].mode = BatchMode
        /\ IF BatchMode = "fact-check"
           THEN highlightSegments[j].verdict = Batch[k].verdict
           ELSE /\ highlightSegments[j].verdict = "contradiction"
                /\ highlightSegments[j].logicalDetails = Batch[k]}

\* Annotation k is the only one of the batch requesting its snippetText
OnlyRequester(k) ==
    \A i \in 1..Len(Batch) : i # k => SnippetAt(i) # SnippetAt(k)

\* Annotation k has exactly one Highlight, on the first occurrence of its
\* snippetText in the Document
PlacedAtFirstOccurrence(k) ==
    /\ IsPlaced(k)
    /\ Placed[k].start = Least(Occurrences(SnippetAt(k)))
    /\ Placed[k].end = Placed[k].start + Len(SnippetAt(k))
    /\ Cardinality(HighlightsOf(k)) = 1

(***************************************************************************)
(* C4 as stated: an Annotation whose snippetText occurs in the Document    *)
(* and that is the only one requesting it gets exactly one Highlight, on   *)
(* the first occurrence.                                                   *)
(***************************************************************************)
C4_Original ==
    \A k \in 1..Len(Batch) :
        (/\ HasSnippet(k)
         /\ Occurrences(SnippetAt(k)) # {}
         /\ OnlyRequester(k)) => PlacedAtFirstOccurrence(k)

(***************************************************************************)
(* C4 amended: an Annotation whose non-empty snippetText occurs in the     *)
(* Document, that is the only one requesting it, and whose first           *)
(* occurrence intersects no Range allocated to an Annotation processed     *)
(* before it, gets exactly one Highlight, on the first occurrence.         *)
(***************************************************************************)
C4_FirstOccurrenceWhenFree ==
    \A k \in 1..Len(Batch) :
        (/\ HasSnippet(k)
         /\ Occurrences(SnippetAt(k)) # {}
         /\ OnlyRequester(k)
         /\ Least(Occurrences(SnippetAt(k))) \in
                FreeOccurrences(SnippetAt(k), RangesBefore(k)))
        => PlacedAtFirstOccurrence(k)

\* a snippetText occurring twice, requested once, placed on its first
\* occurrence after another Annotation was placed elsewhere
C4_Witness ==
    \E k \in 1..Len(Batch) :
        /\ HasSnippet(k)
        /\ Cardinality(Occurrences(SnippetAt(k))) >= 2
        /\ OnlyRequester(k)
        /\ RangesBefore(k) # {}
        /\ PlacedAtFirstOccurrence(k)

\* the Ranges allocated before Annotation j to Annotations other than i
OtherRangesBefore(i, j) ==
    {Placed[k] : k \in {k \in 1..(j - 1) : k # i /\ Placed[k] # Null}}

\* two of the given occurrences of needle do not overlap each other
TwoDisjoint(needle, occurrences) ==
    \E o1, o2 \in occurrences : o1 + Len(needle) <= o2

\* Annotation k sits on the first occurrence of its snippetText that
\* intersects no Range allocated before it
OnFirstAvailable(k) ==
    /\ IsPlaced(k)
    /\ FreeOccurrences(SnippetAt(k), RangesBefore(k)) # {}
    /\ Placed[k].start = Least(FreeOccurrences(SnippetAt(k), RangesBefore(k)))
    /\ Placed[k].end = Placed[k].start + Len(SnippetAt(k))

\* Annotations i and j (i processed first) are both placed, on disjoint
\* Ranges, i on the first available occurrence and j on the next one, each
\* Highlight with its own verdict
BothPlacedInOrder(i, j) ==
    /\ OnFirstAvailable(i)
    /\ OnFirstAvailable(j)
    /\ Placed[i].end <= Placed[j].start
    /\ Cardinality(HighlightsOf(i)) = 1
    /\ Cardinality(HighlightsOf(j)) = 1
    /\ HighlightsOf(i) # HighlightsOf(j)

(***************************************************************************)
(* C5 as stated: two Annotations requesting the same snippetText (and no   *)
(* third one requesting it), which occurs at least twice non-overlapping   *)
(* in the Document, are both placed, the first on the first available      *)
(* occurrence and the second on the next.                                  *)
(***************************************************************************)
C5_Original ==
    \A i, j \in 1..Len(Batch) :
        (/\ i < j
         /\ HasSnippet(i)
         /\ SnippetAt(i) = SnippetAt(j)
         /\ \A m \in 1..Len(Batch) \ {i, j} : SnippetAt(m) # SnippetAt(i)
         /\ TwoDisjoint(SnippetAt(i), Occurrences(SnippetAt(i))))
        => BothPlacedInOrder(i, j)

(***************************************************************************)
(* C5 amended: two Annotations requesting the same snippetText are both    *)
(* placed, on disjoint Ranges, the one processed first on the first        *)
(* available occurrence and the other on the next available one, each      *)
(* Highlight keeping its own verdict, provided at least two mutually       *)
(* non-overlapping occurrences of the snippetText intersect no Range       *)
(* allocated to any other Annotation processed before the second of them.  *)
(***************************************************************************)
C5_SameSnippetBothPlaced ==
    \A i, j \in 1..Len(Batch) :
        (/\ i < j
         /\ HasSnippet(i)
         /\ SnippetAt(i) = SnippetAt(j)
         /\ TwoDisjoint(SnippetAt(i),
                        FreeOccurrences(SnippetAt(i), OtherRangesBefore(i, j))))
        => BothPlacedInOrder(i, j)

\* two fact-check results of one claim with different verdicts, both placed
\* although a third Annotation holds a Range
C5_Witness ==
    \E i, j \in 1..Len(Batch) :
        /\ i < j
        /\ BatchMode = "fact-check"
        /\ HasSnippet(i)
        /\ SnippetAt(i) = SnippetAt(j)
        /\ Batch[i].verdict # Batch[j].verdict
        /\ OtherRangesBefore(i, j) # {}
        /\ BothPlacedInOrder(i, j)

\* Document index p lies in a PlainText segment
InPlainText(p) ==
    \E j \in 1..Len(highlightSegments) :
        /\ highlightSegments[j].type = "text"
        /\ SegmentStart(j) <= p
        /\ p < SegmentEnd(j)

\* Document index p lies in the Range of a placed Annotation
InPlacedRange(p) ==
    \E i \in 1..Len(Placed) :
        IsPlaced(i) /\ Placed[i].start <= p /\ p < Placed[i].end

\* the Document indices the occurrences of Annotation k's snippetText cover
OccurrenceIndices(k) ==
    UNION {o..(o + Len(SnippetAt(k)) - 1) : o \in Occurrences(SnippetAt(k))}

\* Annotation k cannot be allocated: no occurrence, or every occurrence
\* intersects a Range already claimed
NothingAvailable(k) ==
    /\ HasSnippet(k)
    /\ FreeOccurrences(SnippetAt(k), RangesBefore(k)) = {}

\* Annotation k has no Highlight segment: it holds no Range, and every
\* Highlight segment rendered is that of one placed Annotation
NoHighlightFor(k) ==
    /\ ~IsPlaced(k)
    /\ Len(Highlights) = Cardinality({i \in 1..Len(Placed) : IsPlaced(i)})

(***************************************************************************)
(* C6 as stated: an Annotation whose snippetText occurs nowhere, or whose  *)
(* every occurrence overlaps a Range already claimed, produces no          *)
(* Highlight, and the text of its occurrences is in PlainText segments.    *)
(***************************************************************************)
C6_Original ==
    \A k \in 1..Len(Batch) :
        NothingAvailable(k) =>
            /\ NoHighlightFor(k)
            /\ \A p \in OccurrenceIndices(k) : InPlainText(p)

(***************************************************************************)
(* C6 amended: an Annotation whose snippetText occurs nowhere, or whose    *)
(* every occurrence overlaps a Range already claimed, produces no          *)
(* Highlight, and the text of its occurrences is in PlainText segments     *)
(* wherever the Range of another Annotation does not cover it.             *)
(***************************************************************************)
C6_UnplacedStaysPlainText ==
    \A k \in 1..Len(Batch) :
        NothingAvailable(k) =>
            /\ NoHighlightFor(k)
            /\ \A p \in OccurrenceIndices(k) :
                   InPlainText(p) \/ InPlacedRange(p)
            /\ \A p \in OccurrenceIndices(k) :
                   ~(InPlainText(p) /\ InPlacedRange(p))

\* an Annotation all of whose occurrences are blocked, part of its text in a
\* PlainText segment and part under another Annotation's Highlight
C6_Witness ==
    \E k \in 1..Len(Batch) :
        /\ NothingAvailable(k)
        /\ Occurrences(SnippetAt(k)) # {}
        /\ NoHighlightFor(k)
        /\ \E p \in OccurrenceIndices(k) : InPlainText(p)
        /\ \E p \in OccurrenceIndices(k) : InPlacedRange(p)

\* the Annotations of the active batch that hold a Range, in batch order
RECURSIVE PlacedAnnotations(_)
PlacedAnnotations(k) ==
    IF k = 0 THEN <<>>
    ELSE IF IsPlaced(k) THEN Append(PlacedAnnotations(k - 1), Batch[k])
         ELSE PlacedAnnotations(k - 1)

\* the result batches with every Annotation that failed allocation removed
\* from the active one
FactResultsPlaced ==
    IF BatchUsed /\ BatchMode = "fact-check"
    THEN PlacedAnnotations(Len(Batch)) ELSE factCheckResults

LogicalResultsPlaced ==
    IF BatchUsed /\ BatchMode = "logical"
    THEN PlacedAnnotations(Len(Batch)) ELSE logicalResults

(***************************************************************************)
(* C7: a placement failure affects only the failing Annotation: the        *)
(* rendered Segment sequence is the one of the same batch without the      *)
(* Annotations that failed allocation, and the remaining Annotations hold  *)
(* the same Ranges.                                                        *)
(***************************************************************************)
C7_FailuresAffectNothingElse ==
    /\ highlightSegments =
           HighlightSegments(content, analysisMode, claims, FactResultsPlaced,
                             LogicalResultsPlaced)
    /\ FilterSpans(Placed) =
           Placements(content, BatchMode, claims, PlacedAnnotations(Len(Batch)))

\* an Annotation blocked on text that another Annotation does not cover,
\* between two Annotations that are placed
C7_Witness ==
    \E i, k, m \in 1..Len(Batch) :
        /\ i < k /\ k < m
        /\ IsPlaced(i) /\ ~IsPlaced(k) /\ IsPlaced(m)
        /\ NothingAvailable(k)
        /\ \E p \in OccurrenceIndices(k) : Placed[m].start <= p /\ p < Placed[m].end

\* the Highlights a batch yields: Range and snippetText of each
HighlightSet(results) ==
    LET placed == Placements(content, BatchMode, claims, results)
    IN  {<<placed[k].start, placed[k].end, placed[k].claimText>> :
            k \in {k \in 1..Len(placed) : placed[k] # Null}}

\* the batch with Annotations i and j exchanged
Exchanged(i, j) ==
    [k \in 1..Len(Batch) |->
        IF k = i THEN Batch[j] ELSE IF k = j THEN Batch[i] ELSE Batch[k]]

(***************************************************************************)
(* C8: Annotations are allocated strictly in result-array order: the Range *)
(* of result k is the first occurrence of its snippet that intersects no   *)
(* Range allocated to the results before it (none when there is no such    *)
(* occurrence), whatever results follow it.                                *)
(***************************************************************************)
C8_AllocatedInArrayOrder ==
    \A k \in 1..Len(Batch) :
        /\ IF HasSnippet(k) /\ FreeOccurrences(SnippetAt(k), RangesBefore(k)) # {}
           THEN OnFirstAvailable(k)
           ELSE ~IsPlaced(k)
        /\ Placements(content, BatchMode, claims, SubSeq(Batch, 1, k))[k] = Placed[k]

\* the same Annotations in another order yield another set of Highlights
C8_Witness ==
    \E i, j \in 1..Len(Batch) :
        /\ i < j
        /\ IsPlaced(i) /\ ~IsPlaced(j)
        /\ HighlightSet(Exchanged(i, j)) # HighlightSet(Batch)

\* the positions an offset of the claim extraction service may name
Offsets == 0..MaxDocLen

\* the claims with every startChar and endChar replaced
WithOffsets(claimList, startChar, endChar) ==
    [k \in 1..Len(claimList) |->
        [claimList[k] EXCEPT !.startChar = startChar, !.endChar = endChar]]

(***************************************************************************)
(* C9: placement does not depend on the offsets the claim extraction       *)
(* service supplies: the rendered Segment sequence is the one computed     *)
(* from the same claims with any other startChar and endChar, so two       *)
(* states differing only in these offsets render identical sequences.      *)
(***************************************************************************)
C9_OffsetsIgnored ==
    \A startChar, endChar \in Offsets :
        highlightSegments =
            HighlightSegments(content, analysisMode,
                              WithOffsets(claims, startChar, endChar),
                              factCheckResults, logicalResults)

\* a claim highlighted on a Range other than the one its offsets name
C9_Witness ==
    \E k \in 1..Len(Batch), c \in 1..Len(claims) :
        /\ BatchMode = "fact-check"
        /\ claims[c].id = Batch[k].id
        /\ claims[c].startChar < claims[c].endChar
        /\ IsPlaced(k)
        /\ Cardinality(HighlightsOf(k)) = 1
        /\ <<Placed[k].start, Placed[k].end>> #
               <<claims[c].startChar, claims[c].endChar>>

(***************************************************************************)
(* C10: the rendered Segment sequence draws its Highlights from one        *)
(* source: every Highlight segment carries the current analysisMode, so    *)
(* no sequence holds both a fact-check and a logical Highlight, also when  *)
(* both result batches are non-empty.                                      *)
(***************************************************************************)
C10_OneSourcePerSequence ==
    /\ \A j \in HighlightIndices : highlightSegments[j].mode = analysisMode
    /\ \A i, j \in HighlightIndices :
           highlightSegments[i].mode = highlightSegments[j].mode

\* logical Highlights rendered while the fact-check batch, too, has a claim
\* that occurs in the Document
C10_Witness ==
    /\ analysisMode = "logical"
    /\ Len(Highlights) >= 1
    /\ Len(factCheckResults) > 0
    /\ FilterSpans(Placements(content, "fact-check", claims, factCheckResults))
           # <<>>

(***************************************************************************)
(* Vocabulary of the properties of the selection and the analysis runs.    *)
(***************************************************************************)
\* the result batch on display: that of analysisMode
DisplayedBatch ==
    IF analysisMode = "fact-check" THEN factCheckResults ELSE logicalResults

\* the selection holds a payload that a result of the batch on display gives
SelectionFromDisplayedBatch ==
    /\ selectedInsight.mode = analysisMode
    /\ \E k \in 1..Len(DisplayedBatch) :
           IF analysisMode = "fact-check"
           THEN selectedInsight.verdict = DisplayedBatch[k].verdict
           ELSE selectedInsight.proposition = DisplayedBatch[k].proposition

\* the step switches the analysis mode, or replaces or empties the batch on
\* display
DisplayedBatchChanges ==
    \/ analysisMode' # analysisMode
    \/ DisplayedBatch' # DisplayedBatch

(***************************************************************************)
(* C11: a selection never survives a change of the active result batch:    *)
(* every step that switches the analysis mode, or replaces or empties the  *)
(* batch on display, leaves selectedInsight null, and a selection always   *)
(* holds a payload taken from the batch on display.                        *)
(***************************************************************************)
C11_SelectionResetOnBatchChange ==
    [][/\ DisplayedBatchChanges => selectedInsight' = Null
       /\ selectedInsight' # Null => SelectionFromDisplayedBatch']_vars

\* a fact-check Highlight is selected while the response that replaces the
\* fact-check batch on display is about to be delivered
C11_Witness ==
    /\ selectedInsight # Null
    /\ selectedInsight.mode = "fact-check"
    /\ analysisMode = "fact-check"
    /\ factCheckRun = "fact-check"
    /\ factCheckExchange # Null
    /\ factCheckExchange.results # factCheckResults

\* the step completes an analysis run of the kind on display
DisplayedKindRunCompletes ==
    \/ analysisMode = "fact-check" /\ factCheckRun # "idle"
           /\ factCheckRun' = "idle"
    \/ analysisMode = "logical" /\ logicalCheckRun # "idle"
           /\ logicalCheckRun' = "idle"

(***************************************************************************)
(* C12: the selection is a flat two-state machine: selectedInsight becomes *)
(* a selection only when a Highlight segment is activated, and becomes     *)
(* null only on explicit dismissal or when the active result batch changes *)
(* (a mode switch, or a run replacing the batch on display); no other      *)
(* event changes the selection.                                            *)
(***************************************************************************)
C12_OnlyActivationDismissalBatchChange ==
    [][selectedInsight' # selectedInsight =>
           IF selectedInsight' # Null
           THEN \E j \in 1..Len(highlightSegments) : HandleHighlightSelect(j)
           ELSE \/ DismissInsight
                \/ DisplayedBatchChanges
                \/ DisplayedKindRunCompletes]_vars

\* the step is one of a fact-check run: its start, the claims arriving, the
\* route answering, the response or a failure arriving
FactCheckRunStep ==
    factCheckRun' # factCheckRun \/ factCheckExchange' # factCheckExchange

\* the step is one of a logical-discrepancy run: its start or its end
LogicalCheckRunStep == logicalCheckRun' # logicalCheckRun

\* neither operation waits for the other: each can start when it is not
\* loading itself, and each can take its next step when it is in flight
\* (the memo that follows a handler's updates is always defined)
NeitherRunBlocked ==
    /\ factCheckRun = "idle" => ENABLED HandleRunFactCheckUpdates
    /\ (logicalCheckRun = "idle" /\ Trim(content) # <<>>) =>
           ENABLED HandleCheckLogicalDiscrepancies
    /\ factCheckRun = "fact-claims" =>
           /\ ENABLED (\E extractedClaims \in ExtractedClaims :
                          FactClaimsResolvedUpdates(extractedClaims))
           /\ ENABLED FactCheckRejectedUpdates
    /\ (factCheckRun = "fact-check" /\ factCheckExchange = Null) =>
           /\ ENABLED (\E results \in ParsedResults(claims) :
                          FactCheckRoute(results))
           /\ ENABLED FactCheckRejectedUpdates
    /\ (factCheckRun = "fact-check" /\ factCheckExchange # Null) =>
           ENABLED FactCheckResolvedUpdates
    /\ logicalCheckRun = "main-document" =>
           /\ ENABLED (\E results \in LogicalAnalyses :
                          LogicalCheckResolvedUpdates(results))
           /\ ENABLED LogicalCheckRejectedUpdates

(***************************************************************************)
(* C13: the two analysis operations keep separate result batches and do    *)
(* not block each other: no step of a fact-check run changes               *)
(* logicalResults, no step of a logical-discrepancy run changes claims or  *)
(* factCheckResults, and each operation can start and complete while the   *)
(* other is in flight.                                                     *)
(***************************************************************************)
C13_SeparateBatchesNoBlocking ==
    /\ [][/\ FactCheckRunStep =>
                 logicalResults' = logicalResults /\ ~LogicalCheckRunStep
          /\ LogicalCheckRunStep =>
                 /\ claims' = claims
                 /\ factCheckResults' = factCheckResults
                 /\ ~FactCheckRunStep]_vars
    /\ []NeitherRunBlocked

\* both operations in flight, each over a batch of its kind from an earlier
\* run, the fact-check response about to be delivered
C13_Witness ==
    /\ factCheckRun = "fact-check"
    /\ factCheckExchange # Null
    /\ logicalCheckRun = "main-document"
    /\ Len(factCheckResults) > 0
    /\ Len(logicalResults) > 0

(***************************************************************************)
(* C14: a completed run replaces the batch of its kind wholesale.  When a  *)
(* fact-check run ends, factCheckResults is exactly the results of the     *)
(* response it received, and empty when it ended without one (no claims,   *)
(* or a failed request); when a logical run ends, logicalResults is        *)
(* exactly the analysis it received, and empty when the request failed.    *)
(* The batch left behind is a function of the response alone, nothing of   *)
(* the earlier batch is kept, so a second run with the same response       *)
(* leaves the batch of the first.                                          *)
(***************************************************************************)
C14_RunReplacesBatch ==
    [][/\ (factCheckRun # "idle" /\ factCheckRun' = "idle") =>
              factCheckResults' = IF factCheckExchange # Null
                                  THEN factCheckExchange.results
                                  ELSE <<>>
       /\ \A results \in LogicalAnalyses :
              LogicalCheckResolvedUpdates(results) => logicalResults' = results
       /\ LogicalCheckRejectedUpdates => logicalResults' = <<>>
       /\ (logicalCheckRun # "idle" /\ logicalCheckRun' = "idle") =>
              \/ \E results \in LogicalAnalyses :
                     LogicalCheckResolvedUpdates(results)
              \/ LogicalCheckRejectedUpdates]_vars

\* a fact-check response about to be delivered over a non-empty batch of an
\* earlier run that differs from it, while a logical run is in flight over a
\* non-empty batch of its own kind
C14_Witness ==
    /\ factCheckRun = "fact-check"
    /\ factCheckExchange # Null
    /\ Len(factCheckResults) > 0
    /\ Len(factCheckExchange.results) > 0
    /\ factCheckExchange.results # factCheckResults
    /\ logicalCheckRun = "main-document"
    /\ Len(logicalResults) > 0

\* a logical-discrepancy run starts
LogicalCheckStarts ==
    logicalCheckRun = "idle" /\ logicalCheckRun' = "main-document"

\* Highlight j of highlightSegments is a fact-check Highlight on display
FactHighlightDisplayed(j) ==
    /\ isAnalysisView /\ CanShowAnalysisContent
    /\ highlightSegments[j].type = "highlight"
    /\ highlightSegments[j].mode = "fact-check"

(***************************************************************************)
(* C15: starting a logical-discrepancy run clears neither claims nor       *)
(* factCheckResults and does not leave the analysis view, so the           *)
(* fact-check Highlights on display stay on display while the run is in    *)
(* flight.                                                                 *)
(***************************************************************************)
C15_LogicalStartKeepsFactHighlights ==
    [][LogicalCheckStarts =>
           /\ claims' = claims
           /\ factCheckResults' = factCheckResults
           /\ isAnalysisView' = isAnalysisView
           /\ \A j \in 1..Len(highlightSegments) :
                  FactHighlightDisplayed(j) => FactHighlightDisplayed(j)']_vars

\* a logical-discrepancy run in flight with idle fact checking, and a
\* fact-check Highlight of the earlier fact-check run on display
C15_Witness ==
    /\ logicalCheckRun = "main-document"
    /\ factCheckRun = "idle"
    /\ \E j \in 1..Len(highlightSegments) : FactHighlightDisplayed(j)

(***************************************************************************)
(* C16: every result of the fact-check endpoint reports the upstream       *)
(* verdict when that verdict is supported, contradicted or uncertain.      *)
(***************************************************************************)
C16_VerdictPreserved ==
    factCheckExchange # Null =>
        \A k \in 1..Len(factCheckExchange.parsed) :
            factCheckExchange.parsed[k].verdict \in UpstreamVerdicts =>
                factCheckExchange.results[k].verdict =
                    factCheckExchange.parsed[k].verdict

(***************************************************************************)
(* C17: no PlainText segment has empty text: every rendered segment of     *)
(* type "text" has length at least 1, whatever the batch, also when a      *)
(* Highlight starts at index 0, when two Highlights are adjacent and when  *)
(* a Highlight ends at len(D).                                             *)
(***************************************************************************)
C17_NoEmptyPlainText ==
    \A j \in 1..Len(highlightSegments) :
        highlightSegments[j].type = "text" =>
            Len(highlightSegments[j].text) >= 1

\* a Highlight at index 0, a Highlight ending at len(D), and two adjacent
\* Highlights: the three places where the builder has no text to push
C17_Witness ==
    /\ Len(highlightSegments) >= 2
    /\ IsHighlight(highlightSegments[1])
    /\ IsHighlight(highlightSegments[Len(highlightSegments)])
    /\ \E j \in 1..(Len(highlightSegments) - 1) :
           IsHighlight(highlightSegments[j])
               /\ IsHighlight(highlightSegments[j + 1])

\* the assignedRanges array once Annotations 1..k have been visited
AssignedRangesAfter(k) ==
    LET placedSpans == FilterSpans(SubSeq(Placed, 1, k))
    IN  [i \in 1..Len(placedSpans) |->
            [start |-> placedSpans[i].start, end |-> placedSpans[i].end]]

(***************************************************************************)
(* C18: an empty needle fails allocation at once: at every point of the    *)
(* computation findAvailableRange of the empty string returns no Range     *)
(* and leaves the allocated Ranges as they were, and an Annotation whose   *)
(* snippet is empty is not placed and has no Highlight.                    *)
(***************************************************************************)
C18_EmptyNeedleNotFound ==
    /\ \A k \in 0..Len(Batch) :
           FindAvailableRange(content, AssignedRangesAfter(k), <<>>) =
               [range |-> Null, assignedRanges |-> AssignedRangesAfter(k)]
    /\ \A k \in 1..Len(Batch) : SnippetAt(k) = <<>> => ~IsPlaced(k)
    /\ Len(Highlights) = Cardinality({k \in 1..Len(Batch) : IsPlaced(k)})

\* an Annotation with an empty snippet, visited after an Annotation that was
\* placed, in a non-empty Document
C18_Witness ==
    /\ content # <<>>
    /\ \E i, k \in 1..Len(Batch) :
           /\ i < k
           /\ IsPlaced(i)
           /\ SnippetAt(k) = <<>>
           /\ ~IsPlaced(k)
           /\ AssignedRangesAfter(k) # <<>>
    /\ Len(Highlights) < Len(Batch)

\* the searchIndex values of the scan made for Annotation k
ScanOf(k) ==
    ScanIndices(content, AssignedRangesAfter(k - 1), SnippetAt(k), 0)

SegmentTypes == {"text", "highlight"}

(***************************************************************************)
(* C19: the Range allocator and the segment builder are total.  The scan   *)
(* made for an Annotation runs its loop body at most len(D) times with a   *)
(* strictly increasing searchIndex below len(D), and ends with no Range or *)
(* with a non-empty Range inside [0, len(D)]; the segments built are a     *)
(* list of text and highlight segments, each the slice of the Document at  *)
(* its place.                                                              *)
(***************************************************************************)
C19_AllocatorAndBuilderTotal ==
    /\ \A k \in 1..Len(Batch) :
           HasSnippet(k) =>
               /\ Len(ScanOf(k)) <= Len(content)
               /\ \A i \in 1..Len(ScanOf(k)) :
                      /\ 0 <= ScanOf(k)[i] /\ ScanOf(k)[i] < Len(content)
                      /\ i > 1 => ScanOf(k)[i - 1] < ScanOf(k)[i]
               /\ \/ Placed[k] = Null
                  \/ /\ 0 <= Placed[k].start
                     /\ Placed[k].start < Placed[k].end
                     /\ Placed[k].end <= Len(content)
    /\ Len(Placed) = Len(Batch)
    /\ Len(highlightSegments) <= 2 * Len(Batch) + 1
    /\ \A j \in 1..Len(highlightSegments) :
           /\ highlightSegments[j].type \in SegmentTypes
           /\ SegmentEnd(j) <= Len(content)
           /\ highlightSegments[j].text =
                  Slice(content, SegmentStart(j), SegmentEnd(j))

\* a scan that passes over an occupied occurrence and returns a Range that
\* ends at len(D), and a scan that passes over occupied occurrences until
\* none is left
C19_Witness ==
    /\ \E k \in 1..Len(Batch) :
           /\ HasSnippet(k) /\ IsPlaced(k)
           /\ Len(ScanOf(k)) >= 2
           /\ Placed[k].end = Len(content)
    /\ \E k \in 1..Len(Batch) :
           /\ HasSnippet(k) /\ ~IsPlaced(k)
           /\ Len(ScanOf(k)) >= 2

\* the batch on display is the logical one
LogicalBatchUsed == BatchUsed /\ BatchMode = "logical"

\* the string is one; undefined and whitespace-only strings are blank
IsBlank(str) == str = Absent \/ Trim(str) = <<>>

\* the text of the Document the Highlight of Annotation k covers
PlacedText(k) == Slice(content, Placed[k].start, Placed[k].end)

(***************************************************************************)
(* C20 as stated: in logical mode the snippet of a result is the           *)
(* proposition's chunkText whenever chunkText is present and its text only *)
(* when chunkText is absent; a result whose chunkText is present and       *)
(* cannot be placed is not placed by its text.                             *)
(***************************************************************************)
C20_Original ==
    LogicalBatchUsed =>
        \A k \in 1..Len(Batch) :
            LET proposition == Batch[k].proposition
            IN  IF proposition.chunk_text # Absent
                THEN /\ SnippetAt(k) = proposition.chunk_text
                     /\ IsPlaced(k) =>
                            PlacedText(k) = proposition.chunk_text
                ELSE SnippetAt(k) = proposition.text

(***************************************************************************)
(* C20: in logical mode the snippet of a result is the proposition's       *)
(* chunkText, trimmed, whenever chunkText is present and not blank, and    *)
(* its text, trimmed, otherwise (chunkText absent, empty or whitespace     *)
(* only); a result with a non-blank chunkText is placed on an occurrence   *)
(* of that chunkText or not at all: when none is available its text is not *)
(* tried and it gets no Highlight.                                         *)
(***************************************************************************)
C20_ChunkTextBeforeText ==
    LogicalBatchUsed =>
        /\ \A k \in 1..Len(Batch) :
               LET proposition == Batch[k].proposition
               IN  IF ~IsBlank(proposition.chunk_text)
                   THEN /\ SnippetAt(k) = Trim(proposition.chunk_text)
                        /\ IsPlaced(k) =>
                               PlacedText(k) = Trim(proposition.chunk_text)
                        /\ FreeOccurrences(Trim(proposition.chunk_text),
                                           RangesBefore(k)) = {} =>
                               ~IsPlaced(k)
                   ELSE /\ SnippetAt(k) = IF proposition.text = Absent
                                          THEN <<>>
                                          ELSE Trim(proposition.text)
                        /\ IsPlaced(k) =>
                               PlacedText(k) = Trim(proposition.text)
        /\ Len(Highlights) = Cardinality({k \in 1..Len(Batch) : IsPlaced(k)})

\* a result whose chunkText has no available occurrence while its text has
\* one, left without a Highlight, beside a result with a whitespace-only
\* chunkText placed by its text
C20_Witness ==
    /\ LogicalBatchUsed
    /\ \E k \in 1..Len(Batch) :
           /\ ~IsBlank(Batch[k].proposition.chunk_text)
           /\ FreeOccurrences(Trim(Batch[k].proposition.text),
                              RangesBefore(k)) # {}
           /\ ~IsPlaced(k)
    /\ \E k \in 1..Len(Batch) :
           /\ Batch[k].proposition.chunk_text # Absent
           /\ IsBlank(Batch[k].proposition.chunk_text)
           /\ IsPlaced(k)

\* the batch on display is the fact-check one
FactBatchUsed == BatchUsed /\ BatchMode = "fact-check"

\* the positions in claims of the claims with the id of Annotation k
ClaimsWithIdOf(k) == {c \in 1..Len(claims) : claims[c].id = Batch[k].id}

(***************************************************************************)
(* C21: fact-check results are joined to claims by id alone: a result is   *)
(* placed by the trimmed claimText of the claim that has the result's id,  *)
(* wherever the two stand in their arrays, its Highlight covers that text  *)
(* and carries the result's verdict, and a result whose id no claim has    *)
(* has no snippet and no Highlight.                                        *)
(***************************************************************************)
C21_JoinedById ==
    FactBatchUsed =>
        /\ \A k \in 1..Len(Batch) :
               /\ ClaimsWithIdOf(k) = {} =>
                      SnippetAt(k) = Absent /\ ~IsPlaced(k)
               /\ \A c \in ClaimsWithIdOf(k) :
                      /\ SnippetAt(k) = Trim(claims[c].claimText)
                      /\ IsPlaced(k) =>
                             /\ PlacedText(k) = Trim(claims[c].claimText)
                             /\ Placed[k].claimText = Trim(claims[c].claimText)
                             /\ Placed[k].verdict = Batch[k].verdict
        /\ Len(Highlights) = Cardinality({k \in 1..Len(Batch) : IsPlaced(k)})

\* a result placed by a claim that stands at another array position, beside
\* a result whose id no claim has
C21_Witness ==
    /\ FactBatchUsed
    /\ \E k \in 1..Len(Batch) :
           /\ IsPlaced(k)
           /\ \E c \in ClaimsWithIdOf(k) : c # k
    /\ \E k \in 1..Len(Batch) :
           /\ ClaimsWithIdOf(k) = {}
           /\ \E c \in 1..Len(claims) :
                  FreeOccurrences(Trim(claims[c].claimText), RangesBefore(k)) # {}

ClaimsOfNewRunStored ==
    /\ factCheckRun = "fact-claims"
    /\ factCheckRun' = "fact-check"
    /\ claims' # claims

\* a fact-check Highlight is among the segments computed
FactHighlightComputed ==
    \E j \in HighlightIndices : highlightSegments[j].mode = "fact-check"

(***************************************************************************)
(* C23: whenever fact-check Highlights are computed, claims and            *)
(* factCheckResults are of one fact-check run: when a run stores claims    *)
(* that differ from those of the run before, no fact-check Highlight is    *)
(* computed from them and the results that run left, so no verdict of one  *)
(* run is attached to a claim text of another.                             *)
(***************************************************************************)
C23_ClaimsAndResultsOfOneRun ==
    [][ClaimsOfNewRunStored => ~FactHighlightComputed']_vars

\* the same joined across runs and on display: the claims of the run in
\* flight, the results of the run before, in the analysis view
MixedRunsDisplayed ==
    /\ factCheckRun = "fact-check"
    /\ isAnalysisView /\ CanShowAnalysisContent
    /\ FactHighlightComputed

(***************************************************************************)
(* C24: once the effects have run, analysisMode does not name an empty     *)
(* batch while the other batch has results: if factCheckResults or         *)
(* logicalResults is non-empty, the batch analysisMode names is non-empty, *)
(* after any run completions, run failures and clicks on the view toggle.  *)
(***************************************************************************)
C24_ModeNamesNonEmptyBatch ==
    (HasFactResults \/ HasLogicalResults) => CanShowAnalysisContent

\* the logical batch emptied by a later logical run while the fact-check
\* batch has results, in the analysis view, with analysisMode on the
\* fact-check batch
C24_Witness ==
    /\ HasFactResults /\ ~HasLogicalResults
    /\ analysisMode = "fact-check"
    /\ logicalCheckRun = "idle"
    /\ factCheckRun = "idle"
    /\ isAnalysisView

(***************************************************************************)
(* C25: every fact-check run and every logical-discrepancy run that is     *)
(* started eventually resets its loading flag, whatever its outcome (no    *)
(* claims, success, a failed request), provided every network call         *)
(* returns.                                                                *)
(***************************************************************************)
C25_LoadingFlagsReset ==
    /\ IsFactCheckLoading ~> ~IsFactCheckLoading
    /\ IsLogicalCheckLoading ~> ~IsLogicalCheckLoading

\* both flags set: the fact-check run past claim extraction, the logical
\* run awaiting its response
C25_Witness ==
    /\ IsFactCheckLoading /\ factCheckRun = "fact-check"
    /\ IsLogicalCheckLoading

(***************************************************************************)
(* Vocabulary of the properties of the project store.                      *)
(***************************************************************************)
\* every request has arrived and returned
AllRequestsCompleted ==
    \A i \in 1..MaxRequests : requests[i].phase = "done"

\* request i returned success
Succeeded(i) ==
    requests[i].phase = "done" /\ requests[i].status = 200

\* no other successful request wrote the file request i wrote
OnlyWriterOfItsFile(i) ==
    \A j \in 1..MaxRequests \ {i} :
        Succeeded(j) => requests[j].file.order # requests[i].file.order

\* the stored data holds the file request i answered with
StoredAsAcknowledged(i) ==
    \E k \in 1..Len(projectData) : projectData[k] = requests[i].file

\* C26: acknowledged writes are not lost under overlapping requests: once
\* all requests have completed, the stored data holds the file of every
\* request that returned success (no other successful request having
\* written the file of that order).
C26_AcknowledgedWritesKept ==
    AllRequestsCompleted =>
        \A i \in 1..MaxRequests :
            (Succeeded(i) /\ OnlyWriterOfItsFile(i)) => StoredAsAcknowledged(i)

\* the order values of files are pairwise distinct
OrdersDistinct(files) ==
    \A k, l \in 1..Len(files) : files[k].order = files[l].order => k = l

\* files is sorted ascending by order
SortedByOrder(files) ==
    \A k, l \in 1..Len(files) : k < l => files[k].order <= files[l].order

\* the positions of files with the given order
EntriesWithOrder(files, order) ==
    {k \in 1..Len(files) : files[k].order = order}

\* the step in which the POST request i writes and answers success
PostSucceeds(i) ==
    /\ requests[i].phase = "writing"
    /\ requests[i].method = "POST"
    /\ requests'[i].phase = "done"

\* C27: with requests handled one at a time, the order values of the stored
\* files stay pairwise distinct, and immediately after each successful POST
\* the list is sorted ascending by order and has exactly one entry with the
\* posted order, which is the new file.
C27_OrdersDistinctAndSortedAfterPost ==
    /\ []OrdersDistinct(projectData)
    /\ [][\A i \in 1..MaxRequests :
            PostSucceeds(i) =>
                /\ SortedByOrder(projectData')
                /\ \E k \in 1..Len(projectData') :
                       /\ EntriesWithOrder(projectData',
                                           requests'[i].file.order) = {k}
                       /\ projectData'[k] = requests'[i].file
                       /\ projectData'[k] =
                              NewFile(projectData, requests[i].body)]_vars

\* a POST has just replaced the stored file of its order, in a store of
\* two files
C27_Witness ==
    \E i \in 1..MaxRequests :
        /\ Succeeded(i)
        /\ requests[i].method = "POST"
        /\ requests[i].body.order = Num(1)
        /\ Len(projectData) = 2
        /\ projectData[1] = requests[i].file
        /\ projectData[1].content = <<"c">>
        /\ projectData[2].order = 2

\* the step in which the PATCH request i returns
PatchReturns(i) ==
    /\ requests[i].phase # "done"
    /\ requests[i].phase = "none" \/ requests[i].method = "PATCH"
    /\ requests'[i].phase = "done"
    /\ requests'[i].method = "PATCH"

\* the fields a PATCH may change
PatchableFields == {"fileName", "description", "content"}

\* the string fields among the three of an object updates
HasStringField(updates) ==
    \E name \in PatchableFields : updates.value[name].type = "string"

\* the status the PATCH handler is to answer body with, given the stored files
PatchStatus(files, body) ==
    IF body.order.type # "number" \/ body.updates.type # "object" THEN 400
    ELSE IF EntriesWithOrder(files, body.order.value) = {} THEN 404
    ELSE IF ~HasStringField(body.updates) THEN 400
    ELSE 200

\* after differs from before only in the three fields of the one file with
\* the given order, each string field of updates stored and no other changed
OnlyPatchedFieldsChanged(before, after, body) ==
    /\ Len(after) = Len(before)
    /\ \E k \in 1..Len(before) :
           /\ EntriesWithOrder(before, body.order.value) = {k}
           /\ \A l \in 1..Len(before) : l # k => after[l] = before[l]
           /\ DOMAIN after[k] = DOMAIN before[k]
           /\ \A name \in DOMAIN before[k] :
                  after[k][name] =
                      IF /\ name \in PatchableFields
                         /\ body.updates.value[name].type = "string"
                      THEN body.updates.value[name].value
                      ELSE before[k][name]

\* C28: a PATCH answers 400 to a non-numeric order or non-object updates,
\* 404 to an order matching no stored file, 400 to updates with no string
\* fileName/description/content, and in each of these cases leaves the
\* stored data as it was; a successful PATCH changes only those three
\* fields of the one file with that order.
C28_RejectedPatchWritesNothing ==
    [][\A i \in 1..MaxRequests :
          PatchReturns(i) =>
              /\ requests'[i].status =
                     PatchStatus(projectData, requests'[i].body)
              /\ requests'[i].status # 200 => projectData' = projectData
              /\ requests'[i].status = 200 =>
                     OnlyPatchedFieldsChanged(projectData, projectData',
                                              requests'[i].body)]_vars

\* each rejection and a success have happened: a PATCH answered 404, or 400
\* for its payload, or 400 for updates without a string field, after a PATCH
\* that stored a description and a content and not its non-string fields
C28_Witness ==
    \E i, j \in 1..MaxRequests :
        /\ Succeeded(i)
        /\ requests[i].method = "PATCH"
        /\ requests[i].body.updates.value.fileName = Undefined
        /\ requests[j].phase = "done"
        /\ requests[j].method = "PATCH"
        /\ requests[j].status \in {400, 404}
        /\ Len(projectData) = 2
        /\ projectData[1].description = <<"e">>
        /\ projectData[1].content = <<"c">>
        /\ projectData[1].fileName = <<"f">>
        /\ projectData[2] = StoredFile(2)

(***************************************************************************)
(* Vocabulary of the properties of the supporting documents.               *)
(***************************************************************************)
\* the list the awaiting save of the Edit Description modal is to restore
EditRollback ==
    IF saveEdit = Null THEN documents ELSE saveEdit.previousDocuments

\* the list the awaiting save of the Rename modal is to restore
RenameRollback ==
    IF saveRename = Null THEN documents ELSE saveRename.previousDocuments

\* C29: optimistic edits are rolled back on failure.  A save that starts
\* keeps the list of before the edit and shows the edited value; while it
\* awaits the server the kept list stays the same; when the server update
\* fails the list is that kept list again, the modal is still open on the
\* same document and the saving flag is false; when it succeeds the list
\* keeps the edited value, the modal is closed and the saving flag is false.
C29_OptimisticEditRolledBack ==
    [][/\ HandleSaveEdit =>
             /\ EditRollback' = documents
             /\ documents'[editingIndex].description = editDescription
       /\ (HandleSaveRename /\ isSavingRename') =>
             /\ RenameRollback' = documents
             /\ documents'[renamingIndex].document_title = Trim(renameValue)
       /\ (isSavingEdit /\ isSavingEdit') =>
             EditRollback' = EditRollback
       /\ (isSavingRename /\ isSavingRename') =>
             RenameRollback' = RenameRollback
       /\ SaveEditRejected =>
             /\ documents' = EditRollback
             /\ editingIndex' = editingIndex /\ editingIndex' # NoIndex
             /\ ~isSavingEdit'
       /\ SaveRenameRejected =>
             /\ documents' = RenameRollback
             /\ renamingIndex' = renamingIndex /\ renamingIndex' # NoIndex
             /\ ~isSavingRename'
       /\ SaveEditResolved =>
             /\ documents'[editingIndex].description = saveEdit.description
             /\ documents'[editingIndex].order = saveEdit.order
             /\ editingIndex' = NoIndex
             /\ ~isSavingEdit'
       /\ SaveRenameResolved =>
             /\ documents'[renamingIndex].document_title = saveRename.newName
             /\ documents'[renamingIndex].order = saveRename.order
             /\ renamingIndex' = NoIndex
             /\ ~isSavingRename']_vars

\* a description edit has failed and been rolled back with its modal still
\* open, after a rename that succeeded and closed its modal
C29_Witness ==
    /\ alerted = "Failed to update description. Please try again."
    /\ editingIndex = 1
    /\ ~isSavingEdit
    /\ saveEdit = Null
    /\ editDescription = <<"e">>
    /\ Len(documents) = 2
    /\ documents[1].description = <<"No description provided.">>
    /\ documents[1].document_title = <<"g">>
    /\ projectData[1].fileName = <<"g">>
    /\ projectData[1].description = <<>>

\* C30: the analysis sidebar is mounted whenever it is open, under every
\* interleaving of "Show analysis" clicks, the animation-frame callback,
\* close clicks, the unmount timeout and result batches becoming empty.
C30_OpenImpliesMounted ==
    isAnalysisSidebarOpen => isAnalysisSidebarMounted

====
